---- MODULE Spec2Model ----
(***************************************************************************)
(* A model of the quantitative core of smart-wealth-advisor:               *)
(*   models.py  calculate_drift, _get_drift_status, generate_action_plan   *)
(*   algo.py    calculate_equilibrium_returns, black_litterman,            *)
(*              _optimize_portfolio                                        *)
(*   models.py  run_monte_carlo                                            *)
(*   tax_optimizer.py  calculate_tax, get_marginal_rate,                   *)
(*              calculate_full_tax, calculate_ssf_rmf_recommendation,      *)
(*              calculate_optimal_allocation                               *)
(*   portfolio_service.py  PortfolioService.deposit, withdraw, invest in   *)
(*              mock mode                                                  *)
(*   auth.py    check_rate_limit, SupabaseAuth.login in mock mode          *)
(*                                                                         *)
(* Numbers.  The Python code works on floats.  The rebalancing part is     *)
(* modelled on exact decimals: a weight is an integer number of percent    *)
(* (0.6 is 60), a drift is a difference of two of them, a portfolio value  *)
(* and a unit price are integers of currency, and a trade amount is kept   *)
(* in hundredths of currency (|drift in percent| * value), so that every   *)
(* product and comparison of the code is exact integer arithmetic here.    *)
(* The binary rounding of a float subtraction is below this resolution.    *)
(* The Black-Litterman part is modelled on exact rationals (a pair of      *)
(* integers in lowest terms); NaN, the result of 0/0, is a value of its    *)
(* own.                                                                    *)
(***************************************************************************)
EXTENDS Integers, Sequences, FiniteSets, TLC

VARIABLES
    current_weights,   \* generate_action_plan / calculate_drift argument
    target_weights,    \* generate_action_plan / calculate_drift argument
    rb_pc,             \* "ready", "drift_done", "plan_done"
    drift_out,         \* what calculate_drift returned
    plan_args,         \* the other arguments of the generate_action_plan call
    plan_out           \* what generate_action_plan returned or raised

rb_vars == <<current_weights, target_weights, rb_pc, drift_out, plan_args, plan_out>>

VARIABLES
    cov_matrix,        \* the covariance DataFrame: its index and its entries
    market_weights,    \* dict asset -> weight, in insertion order
    views,             \* dict asset -> view return, in insertion order
    risk_aversion,
    risk_free_rate,
    tau,
    diag_writeable,    \* whether np.diag of a matrix gives an array that can be written
    bl_pc,             \* "ready", "eq_done", "bl_done"
    eq_out,            \* what a direct call of calculate_equilibrium_returns returned
    bl_calls           \* the black_litterman calls made, by their view_confidences
                       \* argument: the steps taken and the outcome of each

bl_inputs == <<cov_matrix, market_weights, views, risk_aversion, risk_free_rate, tau,
               diag_writeable>>

bl_vars == <<bl_inputs, bl_pc, eq_out, bl_calls>>

VARIABLES
    opt_n,             \* number of assets of the _optimize_portfolio calls, 0 when idle
    opt_calls          \* the direct _optimize_portfolio calls made, in order

opt_vars == <<opt_n, opt_calls>>

VARIABLES
    mc_args,           \* the arguments of the run_monte_carlo calls
    rng_state,         \* the state of numpy's process-wide random generator
    rng_start,         \* that state before the first call
    mc_pc,             \* per thread: "idle", "ready", "seeded" (past line 89), "done"
    mc_calls,          \* per thread: the SimulationResult returned
    other_draws        \* the values that other users of np.random have drawn

mc_vars == <<mc_args, rng_state, rng_start, mc_pc, mc_calls, other_draws>>

VARIABLES
    tax_args,          \* net_income, gross_income, deductions, income_type of the calls
    tax_called,        \* the tax functions called so far
    tax_out,           \* what calculate_tax returned: (tax, bracket label)
    marginal_out,      \* what get_marginal_rate returned
    full_out,          \* what calculate_full_tax returned
    rec_out,           \* what calculate_ssf_rmf_recommendation returned
    alloc_out          \* what calculate_optimal_allocation returned

tax_vars == <<tax_args, tax_called, tax_out, marginal_out, full_out, rec_out, alloc_out>>

VARIABLES
    ps_mode,           \* "idle": no PortfolioService; "mock": one whose mock_mode is True
    MOCK_PORTFOLIOS,   \* user_id -> Portfolio
    MOCK_TRANSACTIONS, \* user_id -> list of Transaction
    ps_count,          \* the number of deposit, withdraw and invest calls made
    ps_before,         \* the two stores as they were before the last call
    ps_last            \* the last call and the success flag it returned

ps_vars == <<ps_mode, MOCK_PORTFOLIOS, MOCK_TRANSACTIONS, ps_count, ps_before, ps_last>>

VARIABLES
    auth_mode,         \* "idle": no SupabaseAuth; "mock": one whose mock_mode is True
    LOGIN_ATTEMPTS,    \* email -> list of the times of the failed attempts
    auth_clock,        \* time.time(), in seconds
    auth_logins,       \* the number of login calls made
    auth_ticks,        \* the number of times the clock was advanced
    auth_before,       \* LOGIN_ATTEMPTS as it was before the last login
    auth_last          \* the last login call and the AuthResult it returned

auth_vars == <<auth_mode, LOGIN_ATTEMPTS, auth_clock, auth_logins, auth_ticks, auth_before,
               auth_last>>

vars == <<rb_vars, bl_vars, opt_vars, mc_vars, tax_vars, ps_vars, auth_vars>>

\* What the actions of one part leave alone
rb_others == <<bl_vars, opt_vars, mc_vars, tax_vars, ps_vars, auth_vars>>

bl_others == <<rb_vars, opt_vars, mc_vars, tax_vars, ps_vars, auth_vars>>

opt_others == <<rb_vars, bl_vars, mc_vars, tax_vars, ps_vars, auth_vars>>

mc_others == <<rb_vars, bl_vars, opt_vars, tax_vars, ps_vars, auth_vars>>

tax_others == <<rb_vars, bl_vars, opt_vars, mc_vars, ps_vars, auth_vars>>

ps_others == <<rb_vars, bl_vars, opt_vars, mc_vars, tax_vars, auth_vars>>

auth_others == <<rb_vars, bl_vars, opt_vars, mc_vars, tax_vars, ps_vars>>

----------------------------------------------------------------------------
(* Arithmetic helpers *)

Abs(x) == IF x < 0 THEN -x ELSE x

\* math.floor(a / b), b # 0
FloorDiv(a, b) ==
    LET q == Abs(a) \div Abs(b)
        exact == q * Abs(b) = Abs(a)
    IN  IF (a < 0) = (b < 0) \/ a = 0 THEN q
        ELSE IF exact THEN -q ELSE -(q + 1)

\* The mutant of IntOfQuotient: rounding down instead of toward zero.
IntOfQuotientFloor(a, b) == FloorDiv(a, b)

\* int(a / b), b # 0: Python's int() drops the fraction, rounding toward zero
IntOfQuotient(a, b) ==
    LET q == Abs(a) \div Abs(b)
    IN  IF (a < 0) = (b < 0) THEN q ELSE -q

\* The orders in which a set can be iterated: list(set(...)) has no fixed order
SetOrders(S) ==
    {s \in [1..Cardinality(S) -> S] : \A i, j \in 1..Cardinality(S) : s[i] = s[j] => i = j}

----------------------------------------------------------------------------
(* Input domains of the rebalancing advisor *)

AssetNames == {"A", "B", "Gold"}

\* current weights, in percent
CurrentWeightValues == {40, 45, 48, 50, 60}

\* target weights, in percent
TargetWeightValues == {48, 50}

\* a dict from some of the names to values
Dicts(names, values) == UNION {[d -> values] : d \in SUBSET names}

EmptyDict == [a \in {} |-> 0]

MaxValueSteps == 1

\* portfolio_value: not validated by the code, so a negative one is accepted
PortfolioValues == {-1000} \cup {k * 1250 : k \in 0..MaxValueSteps}

\* drift_threshold in percent: 0 and the default 5% (the caller's slider gives 1%..10%)
DefaultDriftThreshold == 5

DriftThresholds == {0, DefaultDriftThreshold}

\* asset_prices argument: None, or a dict of unit prices (not validated by the code:
\* a zero and a negative price are passed through)
NoPrices == [given |-> FALSE, table |-> EmptyDict]

PriceArgs ==
    { NoPrices,
      [given |-> TRUE, table |-> [a \in {"A"} |-> 300]],
      [given |-> TRUE,
       table |-> [a \in AssetNames |-> CASE a = "A" -> 70 [] a = "B" -> 0 [] a = "Gold" -> -40]] }

----------------------------------------------------------------------------
(* models.py: calculate_drift, _get_drift_status *)

\* The mutant of UnionAssets: only the current holdings are walked.
UnionAssetsCurrentOnly(cw, tw) == DOMAIN cw

\* set(current_weights.keys()) | set(target_weights.keys())
UnionAssets(cw, tw) == DOMAIN cw \cup DOMAIN tw

\* weights.get(asset, 0)
WeightOf(w, asset) == IF asset \in DOMAIN w THEN w[asset] ELSE 0

RebalancePct == 5

MonitorPct == 2

\* The mutant of GetDriftStatus: rebalancing is needed above 10%, not 5%.
GetDriftStatusAboveTen(drift) ==
    IF Abs(drift) > 2 * RebalancePct THEN "REBALANCE_NEEDED"
    ELSE IF Abs(drift) > MonitorPct THEN "MONITOR"
    ELSE "ON_TARGET"

\* The mutant of GetDriftStatus: the boundaries belong to the upper class.
GetDriftStatusInclusive(drift) ==
    IF Abs(drift) >= RebalancePct THEN "REBALANCE_NEEDED"
    ELSE IF Abs(drift) >= MonitorPct THEN "MONITOR"
    ELSE "ON_TARGET"

GetDriftStatus(drift) ==
    IF Abs(drift) > RebalancePct THEN "REBALANCE_NEEDED"
    ELSE IF Abs(drift) > MonitorPct THEN "MONITOR"
    ELSE "ON_TARGET"

DriftRow(cw, tw, asset) ==
    LET current == WeightOf(cw, asset)
        target  == WeightOf(tw, asset)
        drift   == current - target
    IN  [Asset |-> asset, Current |-> current, Target |-> target,
         Drift |-> drift, Status |-> GetDriftStatus(drift)]

\* sort_values("Drift (%)", ascending=False): the rows in descending drift; the
\* order of rows of equal drift is not fixed by the sort
SortedByDriftDesc(rows) ==
    {s \in SetOrders(rows) : \A i \in 1..(Len(s) - 1) : s[i].Drift >= s[i + 1].Drift}

\* The tables calculate_drift can return
CalculateDriftResults(cw, tw) ==
    SortedByDriftDesc({DriftRow(cw, tw, asset) : asset \in UnionAssets(cw, tw)})

----------------------------------------------------------------------------
(* models.py: generate_action_plan *)

DefaultUnitPrice == 100

DefaultPriceTable ==
    [a \in {"Thai Stock", "US Tech", "Gold", "Bonds"} |->
        CASE a = "Thai Stock" -> 100
          [] a = "US Tech" -> 450
          [] a = "Gold" -> 180
          [] a = "Bonds" -> 100]

\* if asset_prices is None: asset_prices = {...}
EffectivePrices(asset_prices) ==
    IF asset_prices.given THEN asset_prices.table ELSE DefaultPriceTable

\* asset_prices.get(asset, 100)
UnitPrice(prices, asset) == IF asset \in DOMAIN prices THEN prices[asset] ELSE DefaultUnitPrice

\* The mutant of ExceedsThreshold: a drift equal to the threshold triggers too.
ExceedsThresholdInclusive(drift, threshold) == Abs(drift) >= threshold

\* if abs(drift) > drift_threshold
ExceedsThreshold(drift, threshold) == Abs(drift) > threshold

\* The mutant of TradeDirection: the sign convention inverted.
TradeDirectionInverted(drift) == IF drift > 0 THEN "BUY" ELSE "SELL"

\* "SELL" if drift > 0 else "BUY"
TradeDirection(drift) == IF drift > 0 THEN "SELL" ELSE "BUY"

\* abs(drift) * portfolio_value, in hundredths of currency
TradeAmount(drift, portfolio_value) == Abs(drift) * portfolio_value

\* int(trade_amount / price); the price is in currency, the amount in hundredths
TradeUnits(trade_amount, price) == IntOfQuotient(trade_amount, price * 100)

MakeAction(cw, tw, asset, portfolio_value, prices) ==
    LET current == WeightOf(cw, asset)
        target  == WeightOf(tw, asset)
        drift   == current - target
        trade_amount == TradeAmount(drift, portfolio_value)
    IN  [asset |-> asset, action |-> TradeDirection(drift),
         current_weight |-> current, target_weight |-> target, drift |-> drift,
         trade_amount |-> trade_amount,
         trade_units |-> TradeUnits(trade_amount, UnitPrice(prices, asset))]

\* key=lambda x: abs(x.trade_amount)
SortKey(x) == Abs(x.trade_amount)

\* The mutant of InsertByKeyDesc: ascending order (reverse=True forgotten).
InsertByKeyAsc(sorted, x) ==
    LET before == {i \in 1..Len(sorted) : SortKey(sorted[i]) <= SortKey(x)}
        k == Cardinality(before)
    IN  SubSeq(sorted, 1, k) \o <<x>> \o SubSeq(sorted, k + 1, Len(sorted))

\* One step of the stable descending sort: x goes behind every element whose key is
\* not smaller (sorted is in descending key order, so those are a prefix)
InsertByKeyDesc(sorted, x) ==
    LET before == {i \in 1..Len(sorted) : SortKey(sorted[i]) >= SortKey(x)}
        k == Cardinality(before)
    IN  SubSeq(sorted, 1, k) \o <<x>> \o SubSeq(sorted, k + 1, Len(sorted))

RECURSIVE SortActions(_)
\* actions.sort(key=..., reverse=True): stable, equal keys keep their order
SortActions(actions) ==
    IF actions = <<>> THEN <<>>
    ELSE InsertByKeyDesc(SortActions(SubSeq(actions, 1, Len(actions) - 1)),
                         actions[Len(actions)])

RECURSIVE CollectActions(_, _, _, _, _, _)
\* The for loop over assets (a sequence, in iteration order): the actions appended,
\* or the error of the first division by a zero price
CollectActions(assets, cw, tw, portfolio_value, prices, threshold) ==
    IF assets = <<>> THEN [state |-> "ok", actions |-> <<>>]
    ELSE
        LET rest  == CollectActions(SubSeq(assets, 1, Len(assets) - 1),
                                    cw, tw, portfolio_value, prices, threshold)
            asset == assets[Len(assets)]
            drift == WeightOf(cw, asset) - WeightOf(tw, asset)
        IN  IF rest.state # "ok" THEN rest
            ELSE IF ~ExceedsThreshold(drift, threshold) THEN rest
            ELSE IF UnitPrice(prices, asset) = 0
                 THEN [state |-> "ZeroDivisionError", actions |-> <<>>]
            ELSE [state |-> "ok",
                  actions |-> Append(rest.actions,
                                     MakeAction(cw, tw, asset, portfolio_value, prices))]

\* generate_action_plan with the assets iterated in the given order
GenerateActionPlanIn(order, cw, tw, portfolio_value, asset_prices, threshold) ==
    LET got == CollectActions(order, cw, tw, portfolio_value,
                              EffectivePrices(asset_prices), threshold)
    IN  IF got.state # "ok" THEN got
        ELSE [state |-> "ok", actions |-> SortActions(got.actions)]

\* The outcomes generate_action_plan can have
GenerateActionPlanResults(cw, tw, portfolio_value, asset_prices, threshold) ==
    {GenerateActionPlanIn(order, cw, tw, portfolio_value, asset_prices, threshold) :
        order \in SetOrders(UnionAssets(cw, tw))}

----------------------------------------------------------------------------
(* Exact rational arithmetic, standing for the float arithmetic of numpy *)

RECURSIVE GCD(_, _)
GCD(a, b) == IF b = 0 THEN a ELSE GCD(b, a % b)

\* The float NaN (0.0 / 0.0)
NaN == [num |-> 0, den |-> 0]

\* n/d in lowest terms with a positive denominator; n/0 is an infinity, 0/0 is NaN
Rat(n, d) ==
    LET g == GCD(Abs(n), Abs(d))
        sgn == IF d < 0 THEN -1 ELSE 1
    IN  IF g = 0 THEN NaN ELSE [num |-> sgn * (n \div g), den |-> Abs(d) \div g]

Zero == Rat(0, 1)

One == Rat(1, 1)

\* x + y; the sum of two infinities of one sign is that infinity, NaN otherwise
RAdd(x, y) ==
    LET g == GCD(x.den, y.den)
    IN  IF g = 0 THEN (IF x = y THEN x ELSE NaN)
        ELSE Rat(x.num * (y.den \div g) + y.num * (x.den \div g), (x.den \div g) * y.den)

RNeg(x) == [num |-> -x.num, den |-> x.den]

RSub(x, y) == RAdd(x, RNeg(y))

RMul(x, y) ==
    LET g1 == GCD(Abs(x.num), y.den)
        g2 == GCD(Abs(y.num), x.den)
        h1 == IF g1 = 0 THEN 1 ELSE g1
        h2 == IF g2 = 0 THEN 1 ELSE g2
    IN  Rat((x.num \div h1) * (y.num \div h2), (x.den \div h2) * (y.den \div h1))

\* x / y for y # 0
RDiv(x, y) == RMul(x, Rat(y.den, y.num))

RLess(x, y) == x.num * y.den < y.num * x.den

RAbs(x) == [num |-> Abs(x.num), den |-> x.den]

\* Python's max(x, y)
RMax(x, y) == IF RLess(x, y) THEN y ELSE x

RECURSIVE RSumRange(_, _, _)
\* sum of f[lo..hi], by halves
RSumRange(f, lo, hi) ==
    IF lo > hi THEN Zero
    ELSE IF lo = hi THEN f[lo]
    ELSE LET mid == (lo + hi) \div 2
         IN  RAdd(RSumRange(f, lo, mid), RSumRange(f, mid + 1, hi))

\* sum of f[1..n]
RSum(f, n) == RSumRange(f, 1, n)

\* The function f on 1..n as a sequence with its elements worked out once
Vec(f) == f \o <<>>

\* Matrices are sequences of rows, vectors are sequences
Rows(M) == Len(M)

Cols(M) == IF Len(M) = 0 THEN 0 ELSE Len(M[1])

\* M @ N, for N with c columns
MatMul(M, N, c) ==
    Vec([i \in 1..Rows(M) |->
        Vec([j \in 1..c |->
            RSum(Vec([k \in 1..Rows(N) |-> RMul(M[i][k], N[k][j])]), Rows(N))])])

\* M @ v
MatVec(M, v) ==
    Vec([i \in 1..Rows(M) |->
        RSum(Vec([k \in 1..Len(v) |-> RMul(M[i][k], v[k])]), Len(v))])

\* M.T of a matrix with c columns
TransposeOf(M, c) == Vec([j \in 1..c |-> Vec([i \in 1..Rows(M) |-> M[i][j]])])

MatAdd(M, N) ==
    Vec([i \in 1..Rows(M) |-> Vec([j \in 1..Cols(M) |-> RAdd(M[i][j], N[i][j])])])

\* c * M
MatScale(c, M) == Vec([i \in 1..Rows(M) |-> Vec([j \in 1..Cols(M) |-> RMul(c, M[i][j])])])

\* np.diag(v) of a vector: the diagonal matrix
DiagMatrix(v) ==
    Vec([i \in 1..Len(v) |-> Vec([j \in 1..Len(v) |-> IF i = j THEN v[i] ELSE Zero])])

\* The sequence s without its k-th element
Without(s, k) == SubSeq(s, 1, k - 1) \o SubSeq(s, k + 1, Len(s))

\* M without row r and column c
Minor(M, r, c) == Vec([i \in 1..(Rows(M) - 1) |-> Without(Without(M, r)[i], c)])

RECURSIVE Det(_)
\* The determinant, expanded along the first row
Det(M) ==
    IF Rows(M) = 0 THEN One
    ELSE RSum(Vec([j \in 1..Rows(M) |->
                      LET t == RMul(M[1][j], Det(Minor(M, 1, j)))
                      IN  IF j % 2 = 1 THEN t ELSE RNeg(t)]),
              Rows(M))

\* The mutant of IsSingular: np.linalg.inv never raises.
IsSingularNever(M) == FALSE

\* np.linalg.inv raises LinAlgError("Singular matrix") on a singular matrix
IsSingular(M) == Det(M) = Zero

\* np.linalg.inv(M) of a matrix that is not singular: adjugate over determinant
MatInv(M) ==
    LET d == Det(M)
    IN  Vec([i \in 1..Rows(M) |->
            Vec([j \in 1..Rows(M) |->
                LET c == RDiv(Det(Minor(M, j, i)), d)
                IN  IF (i + j) % 2 = 0 THEN c ELSE RNeg(c)])])

----------------------------------------------------------------------------
(* algo.py: calculate_equilibrium_returns *)

\* dict.keys() as a list: a dict is a sequence of <<key, value>> in insertion order
Keys(dict) == Vec([i \in 1..Len(dict) |-> dict[i][1]])

Values(dict) == Vec([i \in 1..Len(dict) |-> dict[i][2]])

\* cov_matrix.loc[assets, assets] raises KeyError when a label is not in the index
LocFails(cov, assets) == \E i \in 1..Len(assets) : assets[i] \notin cov.index

\* cov_matrix.loc[assets, assets].values
LocValues(cov, assets) ==
    Vec([i \in 1..Len(assets) |->
        Vec([j \in 1..Len(assets) |-> cov.entry[<<assets[i], assets[j]>>]])])

\* The mutant of ExcessReturns: the risk aversion is left out.
ExcessReturnsUnscaled(delta, cov, weights) == MatVec(cov, weights)

\* risk_aversion * cov @ weights
ExcessReturns(delta, cov, weights) == MatVec(MatScale(delta, cov), weights)

\* calculate_equilibrium_returns: a Series over the assets of market_weights
CalculateEquilibriumReturnsOf(cov, mw, delta, rf) ==
    LET assets == Keys(mw)
    IN  IF LocFails(cov, assets)
        THEN [state |-> "KeyError", index |-> <<>>, values |-> <<>>]
        ELSE LET excess_returns == ExcessReturns(delta, LocValues(cov, assets), Values(mw))
             IN  [state |-> "ok", index |-> assets,
                  values |-> Vec([i \in 1..Len(assets) |-> RAdd(excess_returns[i], rf)])]

----------------------------------------------------------------------------
(* algo.py: _optimize_portfolio *)

\* w0 = np.ones(n) / n, also the fallback np.array([1/n] * n)
EqualWeights(n) == Vec([i \in 1..n |-> Rat(1, n)])

\* What optimize.minimize(..., method='SLSQP') can hand back for n assets.  The
\* solver is outside the repository: its result is a success flag and a point x, here
\* one that leaves the second asset under 1%.
SolverOutcomes(n) ==
    { [success |-> FALSE, x |-> EqualWeights(n)],
      [success |-> TRUE,
       x |-> Vec([i \in 1..n |-> CASE i = 1 -> (IF n = 1 THEN One ELSE Rat(199, 200))
                                   [] i = 2 -> Rat(1, 200)
                                   [] OTHER -> Zero])] }

\* if result.success: weights = result.x  else: weights = np.array([1/n] * n)
SolverWeights(outcome, n) == IF outcome.success THEN outcome.x ELSE EqualWeights(n)

\* np.where(weights < 0.01, 0, weights)
ZeroSmallWeights(w) ==
    Vec([i \in 1..Len(w) |-> IF RLess(w[i], Rat(1, 100)) THEN Zero ELSE w[i]])

\* weights / weights.sum(): 0/0 is NaN in numpy, not an error
Renormalize(w) ==
    LET total == RSum(w, Len(w))
    IN  Vec([i \in 1..Len(w) |-> IF total = Zero THEN NaN ELSE RDiv(w[i], total)])

\* _optimize_portfolio, given what the solver hands back
OptimizePortfolioWith(outcome, expected_returns) ==
    Renormalize(ZeroSmallWeights(SolverWeights(outcome, Len(expected_returns))))

\* pd.Series(weights, index=assets, name="Optimal Weights"); the assets are numbered
OptimalWeightsSeries(weights) ==
    [values |-> weights, index |-> Vec([i \in 1..Len(weights) |-> i]),
     name |-> "Optimal Weights"]

\* What _optimize_portfolio returns
OptimizePortfolioReturns(outcome, expected_returns) ==
    OptimalWeightsSeries(OptimizePortfolioWith(outcome, expected_returns))

----------------------------------------------------------------------------
(* algo.py: black_litterman *)

\* assets.index(asset)
IndexOf(assets, asset) ==
    CHOOSE i \in 1..Len(assets) :
        assets[i] = asset /\ \A j \in 1..(i - 1) : assets[j] # asset

IsAsset(assets, asset) == \E i \in 1..Len(assets) : assets[i] = asset

\* P: one row per view, 1.0 at the column of the view's asset when it is an asset
PickMatrix(vws, assets) ==
    Vec([i \in 1..Len(vws) |->
        Vec([j \in 1..Len(assets) |->
            IF IsAsset(assets, vws[i][1]) /\ j = IndexOf(assets, vws[i][1])
            THEN One ELSE Zero])])

\* Q: the view's return, left at 0 when the view's asset is not an asset
ViewReturns(vws, assets) ==
    Vec([i \in 1..Len(vws) |-> IF IsAsset(assets, vws[i][1]) THEN vws[i][2] ELSE Zero])

DefaultConfidence == Rat(1, 2)

ConfidenceFloor == Rat(1, 10)

\* view_confidences.get(asset, 0.5), after None became {asset: 0.5 for asset in views}
ConfidenceOf(view_confidences, asset) ==
    IF view_confidences.given /\ asset \in DOMAIN view_confidences.dict
    THEN view_confidences.dict[asset]
    ELSE DefaultConfidence

\* np.diag(P @ (tau * Sigma) @ P.T)
OmegaRaw(P, tau_Sigma, n_assets) ==
    LET M == MatMul(MatMul(P, tau_Sigma, n_assets), TransposeOf(P, n_assets), Len(P))
    IN  Vec([i \in 1..Len(P) |-> M[i][i]])

\* omega_diag[i] /= max(conf, 0.1), for every view
OmegaAdjusted(omega_raw, vws, view_confidences) ==
    Vec([i \in 1..Len(vws) |->
        RDiv(omega_raw[i], RMax(ConfidenceOf(view_confidences, vws[i][1]), ConfidenceFloor))])

\* left_term @ right_term, for matrices that could be inverted
PosteriorReturns(tau_Sigma_inv, P, Omega_inv, Q, pi_array) ==
    LET Pt == TransposeOf(P, Len(pi_array))
        PtOi == MatMul(Pt, Omega_inv, Len(P))
        left_term == MatInv(MatAdd(tau_Sigma_inv, MatMul(PtOi, P, Len(pi_array))))
        from_pi == MatVec(tau_Sigma_inv, pi_array)
        from_Q == MatVec(PtOi, Q)
        right_term == Vec([i \in 1..Len(pi_array) |-> RAdd(from_pi[i], from_Q[i])])
    IN  MatVec(left_term, right_term)

BlSteps(state, built, pi, P, Q, omega_raw, omega_diag, posterior) ==
    [state |-> state, built |-> built, pi |-> pi, P |-> P, Q |-> Q,
     omega_raw |-> omega_raw, omega_diag |-> omega_diag, posterior |-> posterior]

\* The mutant of SkipsViews: the early return is missing.
SkipsViewsNever(vws) == FALSE

\* if not views
SkipsViews(vws) == vws = <<>>

\* black_litterman up to the posterior returns: the steps taken and how they end
\* ("ok", or the exception raised)
BlackLittermanReturns(cov, mw, vws, view_confidences, t, delta, rf, writeable) ==
    LET assets == Keys(mw)
        pi == CalculateEquilibriumReturnsOf(cov, mw, delta, rf)
    IN  IF pi.state # "ok"
        THEN BlSteps(pi.state, FALSE, <<>>, <<>>, <<>>, <<>>, <<>>, <<>>)
        ELSE IF SkipsViews(vws)
        THEN BlSteps("ok", FALSE, pi.values, <<>>, <<>>, <<>>, <<>>, pi.values)
        ELSE
        LET P == PickMatrix(vws, assets)
            Q == ViewReturns(vws, assets)
            Sigma == LocValues(cov, assets)
            tau_Sigma == MatScale(t, Sigma)
            omega_raw == OmegaRaw(P, tau_Sigma, Len(assets))
            omega_diag == OmegaAdjusted(omega_raw, vws, view_confidences)
            Omega == DiagMatrix(omega_diag)
        IN  \* omega_diag is np.diag(...) of a matrix, which numpy gives as a read-only
            \* view of the diagonal (numpy.diagonal, NumPy 1.9 and later; a copy
            \* before): on a read-only array the first omega_diag[i] /= ... raises
            \* ValueError("assignment destination is read-only")
            IF Len(vws) > 0 /\ ~writeable
            THEN BlSteps("ValueError", TRUE, pi.values, P, Q, omega_raw, <<>>, <<>>)
            ELSE IF IsSingular(tau_Sigma) \/ IsSingular(Omega)
            THEN BlSteps("LinAlgError", TRUE, pi.values, P, Q, omega_raw, omega_diag, <<>>)
            ELSE
            LET tau_Sigma_inv == MatInv(tau_Sigma)
                Omega_inv == MatInv(Omega)
                Pt == TransposeOf(P, Len(assets))
            IN  IF IsSingular(MatAdd(tau_Sigma_inv, MatMul(MatMul(Pt, Omega_inv, Len(P)), P, Len(assets))))
                THEN BlSteps("LinAlgError", TRUE, pi.values, P, Q, omega_raw, omega_diag, <<>>)
                ELSE BlSteps("ok", TRUE, pi.values, P, Q, omega_raw, omega_diag,
                             PosteriorReturns(tau_Sigma_inv, P, Omega_inv, Q, pi.values))

----------------------------------------------------------------------------
(* Input domains of the Black-Litterman blender *)

\* The covariance of the two-asset example, [[0.04, 0.01], [0.01, 0.09]]
ExampleEntry(a, b) ==
    CASE a = "X" /\ b = "X" -> Rat(4, 100)
      [] a = "Y" /\ b = "Y" -> Rat(9, 100)
      [] a = "Z" /\ b = "Z" -> Rat(1, 100)
      [] OTHER -> IF "Z" \in {a, b} THEN Zero ELSE Rat(1, 100)

\* a covariance DataFrame over an index: the example's entries, or all zero
ExampleCov(index) ==
    [index |-> index, entry |-> [p \in index \X index |-> ExampleEntry(p[1], p[2])]]

ZeroCov(index) ==
    [index |-> index, entry |-> [p \in index \X index |-> Zero]]

\* two perfectly correlated assets, [[0.04, 0.02], [0.02, 0.01]]: a singular matrix
CorrelatedCov ==
    [index |-> {"X", "Y"},
     entry |-> [p \in {"X", "Y"} \X {"X", "Y"} |->
                   IF p = <<"X", "X">> THEN Rat(4, 100)
                   ELSE IF p = <<"Y", "Y">> THEN Rat(1, 100) ELSE Rat(2, 100)]]

\* the example; the zero matrix; the example with a third asset; one asset only;
\* a singular matrix that is not zero
CovArgs ==
    { ExampleCov({"X", "Y"}), ZeroCov({"X", "Y"}),
      ExampleCov({"X", "Y", "Z"}), ExampleCov({"X"}), CorrelatedCov }

MarketWeightArgs ==
    { << <<"X", Rat(6, 10)>>, <<"Y", Rat(4, 10)>> >>, << <<"X", One>> >> }

RiskAversionArgs == {Zero, Rat(5, 2)}

RiskFreeArgs == {Rat(2, 100)}

TauArgs == {Rat(5, 100)}

\* The returns a view can give an asset; 0.09 is the equilibrium return of X in the
\* example.  Z is an asset of no market_weights.
ViewReturnArgs(asset) ==
    CASE asset = "X" -> {Rat(5, 100), Rat(9, 100)}
      [] asset = "Y" -> {Rat(1, 10)}
      [] asset = "Z" -> {Rat(5, 100)}

MaxViews == 2

\* The calls of black_litterman on the same inputs that are followed
MaxBlCalls == 2

ViewAssetOrder == <<"X", "Y", "Z">>

\* a dict of views on the assets numbered ks, with the returns rs
ViewDict(ks, rs) == Vec([i \in 1..Len(ks) |-> <<ViewAssetOrder[ks[i]], rs[i]>>])

\* dicts of at most MaxViews views, on different assets, inserted in the order X, Y, Z
ViewArgs ==
    UNION { UNION { {ViewDict(ks, rs) :
                        rs \in {r \in [1..n -> UNION {ViewReturnArgs(a) : a \in {"X", "Y", "Z"}}] :
                                    \A i \in 1..n : r[i] \in ViewReturnArgs(ViewAssetOrder[ks[i]])}}
                    : ks \in {k \in [1..n -> 1..3] : \A i, j \in 1..n : i < j => k[i] < k[j]} }
            : n \in 0..MaxViews }

NoConfidences == [given |-> FALSE, dict |-> EmptyDict]

\* A dict with confidences at and under 0: 0 for X, -0.5 for Y, 0.05 for Z
ConfidencesUnderFloor ==
    [given |-> TRUE,
     dict |-> [a \in {"X", "Y", "Z"} |->
                  CASE a = "X" -> Zero [] a = "Y" -> Rat(-1, 2) [] OTHER -> Rat(1, 20)]]

\* A dict with an entry for Y only
ConfidenceOfYOnly == [given |-> TRUE, dict |-> [a \in {"Y"} |-> One]]

\* view_confidences: None, a dict giving every view the same confidence, a dict of
\* confidences under the floor, or a dict that lacks some of the views' assets
ConfidenceArgs ==
    {NoConfidences, ConfidencesUnderFloor, ConfidenceOfYOnly}
    \cup {[given |-> TRUE, dict |-> [a \in {"X", "Y", "Z"} |-> c]] : c \in {One, Rat(1, 10)}}

----------------------------------------------------------------------------
(* models.py: run_monte_carlo, and numpy's process-wide random generator   *)
(*                                                                         *)
(* Numbers are exact rationals.  np.exp is modelled by the exponential of  *)
(* base 2^100, exact on whole hundredths: like exp it is positive,         *)
(* increasing and turns sums into products, and its base plays no part in  *)
(* what is checked.  The monthly volatility is annual_volatility /         *)
(* sqrt(12): it is kept as the multiple of 1/sqrt(12), and a normal draw   *)
(* as a multiple of sqrt(12), so that their product is a rational.         *)
(* numpy's generator (a Mersenne Twister) is modelled by a small           *)
(* congruential generator: a state, a value drawn from each state, a next  *)
(* state.                                                                  *)

RngModulus == 16

\* The generator's state after one draw
RngNext(state) == (5 * state + 3) % RngModulus

\* np.random.seed(seed): the state that the seed stands for
RngSeeded(seed) == seed % RngModulus

\* The standard normal value drawn from a state, as a multiple of sqrt(12)
RngValue(state) ==
    CASE state % 3 = 0 -> Rat(-1, 10)
      [] state % 3 = 1 -> Rat(-1, 20)
      [] OTHER -> Zero

RECURSIVE RngStates(_, _)
\* The states that the next k draws are taken from
RngStates(state, k) ==
    IF k = 0 THEN <<>> ELSE <<state>> \o RngStates(RngNext(state), k - 1)

RECURSIVE RngAfter(_, _)
\* The generator's state after k draws
RngAfter(state, k) == IF k = 0 THEN state ELSE RngAfter(RngNext(state), k - 1)

\* np.random.standard_normal((rows, cols)) drawn from a state, filled row by row
StandardNormal(state, rows, cols) ==
    LET from == RngStates(state, rows * cols)
    IN  Vec([i \in 1..rows |-> Vec([t \in 1..cols |-> RngValue(from[(i - 1) * cols + t])])])

RECURSIVE PowerOfTwo(_)
PowerOfTwo(k) == IF k = 0 THEN 1 ELSE 2 * PowerOfTwo(k - 1)

\* np.exp(x) for x a whole number of hundredths
Exp(x) ==
    LET k == x.num * (100 \div x.den)
    IN  IF k >= 0 THEN Rat(PowerOfTwo(k), 1) ELSE Rat(1, PowerOfTwo(-k))

SeedOfDemo == 42

\* The mutant of SeedDemo: the generator is left as it is.
SeedDemoSkipped(state) == state

\* np.random.seed(42): the generator's state after it, whatever it was
SeedDemo(state) == RngSeeded(SeedOfDemo)

\* drift = (annual_return - 0.5 * annual_volatility**2) / 12
Drift(annual_return, annual_volatility) ==
    RDiv(RSub(annual_return, RMul(Rat(1, 2), RMul(annual_volatility, annual_volatility))),
         Rat(12, 1))

\* monthly_volatility = annual_volatility / np.sqrt(12), as a multiple of 1/sqrt(12)
MonthlyVolatility(annual_volatility) == annual_volatility

\* The mutant of GrowthFactor: no volatility is taken for a volatility of 20%,
\* as monthly_volatility or 0.2 would.
GrowthFactorDefaultVolatility(drift, monthly_volatility, shock) ==
    Exp(RAdd(drift, RMul(IF monthly_volatility = Zero THEN Rat(2, 10)
                         ELSE monthly_volatility, shock)))

\* growth_factor = np.exp(drift + monthly_volatility * random_shocks[:, t-1])
GrowthFactor(drift, monthly_volatility, shock) ==
    Exp(RAdd(drift, RMul(monthly_volatility, shock)))

RECURSIVE PathUpTo(_, _, _, _, _, _)
\* paths[i, 0..t]: paths[:, 0] = current_wealth,
\* paths[:, t] = paths[:, t-1] * growth_factor + monthly_contribution
PathUpTo(t, current_wealth, monthly_contribution, drift, monthly_volatility, shocks) ==
    IF t = 0 THEN <<current_wealth>>
    ELSE LET before == PathUpTo(t - 1, current_wealth, monthly_contribution, drift,
                                monthly_volatility, shocks)
             growth_factor == GrowthFactor(drift, monthly_volatility, shocks[t])
         IN  Append(before, RAdd(RMul(before[t], growth_factor), monthly_contribution))

RECURSIVE InsertAsc(_, _)
InsertAsc(sorted, x) ==
    IF sorted = <<>> THEN <<x>>
    ELSE IF RLess(x, Head(sorted)) THEN <<x>> \o sorted
    ELSE <<Head(sorted)>> \o InsertAsc(Tail(sorted), x)

RECURSIVE SortAsc(_)
SortAsc(values) ==
    IF values = <<>> THEN <<>>
    ELSE InsertAsc(SortAsc(SubSeq(values, 1, Len(values) - 1)), values[Len(values)])

\* np.percentile(values, q): linear interpolation between the two nearest ranks
Percentile(values, q) ==
    LET sorted == SortAsc(values)
        n == Len(values)
        lower == ((n - 1) * q) \div 100
        fraction == Rat(((n - 1) * q) % 100, 100)
    IN  IF lower + 1 >= n THEN sorted[n]
        ELSE RAdd(sorted[lower + 1],
                  RMul(fraction, RSub(sorted[lower + 2], sorted[lower + 1])))

\* np.percentile(paths, q, axis=0): the percentile of every column
PercentileOfColumns(paths, q, n_columns) ==
    Vec([t \in 1..n_columns |-> Percentile(Vec([i \in 1..Len(paths) |-> paths[i][t]]), q)])

\* The mutant of MeetsGoal: a final value equal to the goal does not count.
MeetsGoalStrictly(final_value, goal_amount) == RLess(goal_amount, final_value)

\* final_values >= goal_amount
MeetsGoal(final_value, goal_amount) == ~RLess(final_value, goal_amount)

\* np.mean(final_values >= goal_amount), or 1.0 when goal_amount is None
ProbabilityOfSuccess(final_values, goal_amount) ==
    IF goal_amount.given
    THEN Rat(Cardinality({i \in 1..Len(final_values) :
                             MeetsGoal(final_values[i], goal_amount.value)}),
             Len(final_values))
    ELSE One

\* Lines 92-142 of run_monte_carlo: the SimulationResult for the shocks drawn
Simulate(args, random_shocks) ==
    LET n_periods == args.years_to_retire * 12
        monthly_volatility == MonthlyVolatility(args.annual_volatility)
        drift == Drift(args.annual_return, args.annual_volatility)
        paths == Vec([i \in 1..args.n_simulations |->
                         PathUpTo(n_periods, args.current_wealth, args.monthly_contribution,
                                  drift, monthly_volatility, random_shocks[i])])
        final_values == Vec([i \in 1..args.n_simulations |-> paths[i][n_periods + 1]])
    IN  [years |-> Vec([t \in 1..(n_periods + 1) |-> Rat(t - 1, 12)]),
         paths |-> paths,
         percentile_10 |-> PercentileOfColumns(paths, 10, n_periods + 1),
         percentile_50 |-> PercentileOfColumns(paths, 50, n_periods + 1),
         percentile_90 |-> PercentileOfColumns(paths, 90, n_periods + 1),
         final_values |-> final_values,
         probability_of_success |-> ProbabilityOfSuccess(final_values, args.goal_amount)]

\* The draws of line 109, taken from the generator's state when the line runs
RandomShocks(args, state) ==
    StandardNormal(state, args.n_simulations, args.years_to_retire * 12)

----------------------------------------------------------------------------
(* Input domains of run_monte_carlo *)

NoGoal == [given |-> FALSE, value |-> Zero]

GoalAmountArgs == {NoGoal, [given |-> TRUE, value |-> Rat(4, 1)],
                   [given |-> TRUE, value |-> Rat(8, 1)]}

\* annual_return and annual_volatility whose monthly drift and shocks are whole
\* hundredths: no volatility, a volatility of 20%, and a negative volatility, which
\* the code does not validate
ReturnVolatilityArgs ==
    { <<Zero, Zero>>, <<Rat(12, 100), Zero>>,
      <<Rat(14, 100), Rat(2, 10)>>, <<Rat(2, 100), Rat(2, 10)>>,
      <<Rat(-22, 100), Rat(-2, 10)>> }

MonteCarloArgs ==
    { [current_wealth |-> Rat(4, 1), monthly_contribution |-> c, years_to_retire |-> y,
       annual_return |-> rv[1], annual_volatility |-> rv[2], n_simulations |-> n,
       goal_amount |-> g] :
        c \in {Zero, One}, y \in {0, 1}, rv \in ReturnVolatilityArgs, n \in {1, 3},
        g \in GoalAmountArgs }

\* States the generator can be in when the program gets to the calls
RngStartStates == {0, 7, 10}

\* The sessions that call run_monte_carlo, each in its thread
McThreads == {1, 2}

MaxOtherDraws == 2

----------------------------------------------------------------------------
(* tax_optimizer.py: calculate_tax, get_marginal_rate, calculate_full_tax  *)
(*                                                                         *)
(* Incomes and deductions are whole baht, a rate is a whole number of      *)
(* percent (0.05 is 5), and a tax is kept in hundredths of a baht (baht    *)
(* times percent), so that every product of the code is exact here.        *)

\* float('inf'), the upper end of the last bracket
Infinity == 2000000000

\* TAX_BRACKETS_2567: (upper end of the bracket, rate)
TAX_BRACKETS_2567 ==
    << <<150000, 0>>, <<300000, 5>>, <<500000, 10>>, <<750000, 15>>,
       <<1000000, 20>>, <<2000000, 25>>, <<5000000, 30>>, <<Infinity, 35>> >>

PERSONAL_DEDUCTION == 60000

SPOUSE_DEDUCTION == 60000

CHILD_DEDUCTION == 30000

PARENT_DEDUCTION == 30000

INSURANCE_LIFE_MAX == 100000

INSURANCE_HEALTH_MAX == 25000

SOCIAL_SECURITY_MAX == 9000

PROVIDENT_FUND_MAX_PERCENT == 15

PROVIDENT_FUND_MAX == 500000

SSF_MAX_PERCENT == 30

SSF_MAX_AMOUNT == 200000

RMF_MAX_PERCENT == 30

RMF_MAX_AMOUNT == 500000

RETIREMENT_COMBINED_MAX == 500000

Min(a, b) == IF a <= b THEN a ELSE b

Max(a, b) == IF a >= b THEN a ELSE b

\* income * percent / 100, for an income of whole hundreds of baht
PercentOf(income, percent) == (income * percent) \div 100

\* f"{rate*100:.0f}%"
RateLabel(rate) == ToString(rate) \o "%"

\* The mutant of TaxableInBracket: the bracket is taken from 0, not from the one before.
TaxableInBracketFromZero(remaining, bracket, prev_bracket) == Min(remaining, bracket)

\* taxable = min(remaining, bracket - prev_bracket)
TaxableInBracket(remaining, bracket, prev_bracket) == Min(remaining, bracket - prev_bracket)

RECURSIVE CalculateTaxLoop(_, _, _, _, _)
\* The loop of calculate_tax from the k-th bracket on
CalculateTaxLoop(k, tax, remaining, prev_bracket, current_rate) ==
    IF k > Len(TAX_BRACKETS_2567) THEN <<tax, current_rate>>
    ELSE LET bracket == TAX_BRACKETS_2567[k][1]
             rate == TAX_BRACKETS_2567[k][2]
             taxable == TaxableInBracket(remaining, bracket, prev_bracket)
             tax_now == IF taxable > 0 THEN tax + taxable * rate ELSE tax
             rate_now == IF taxable > 0 THEN RateLabel(rate) ELSE current_rate
         IN  IF remaining - taxable <= 0
             THEN <<tax_now, rate_now>>
             ELSE CalculateTaxLoop(k + 1, tax_now, remaining - taxable, bracket, rate_now)

\* calculate_tax: (tax, label of the highest bracket used)
CalculateTaxOf(net_income) ==
    IF net_income <= 0 THEN <<0, "0%">>
    ELSE CalculateTaxLoop(1, 0, net_income, 0, "0%")

\* The mutant of WithinBracket: an income at the upper end belongs to the next bracket.
WithinBracketExclusive(net_income, bracket) == net_income < bracket

\* if net_income <= bracket
WithinBracket(net_income, bracket) == net_income <= bracket

RECURSIVE GetMarginalRateFrom(_, _)
GetMarginalRateFrom(k, net_income) ==
    IF k > Len(TAX_BRACKETS_2567) THEN 35
    ELSE IF WithinBracket(net_income, TAX_BRACKETS_2567[k][1])
    THEN TAX_BRACKETS_2567[k][2]
    ELSE GetMarginalRateFrom(k + 1, net_income)

\* get_marginal_rate
GetMarginalRateOf(net_income) == GetMarginalRateFrom(1, net_income)

\* calculate_expense_deduction: min(income * 0.50, 100_000) for every income type
CalculateExpenseDeduction(income, income_type) == Min(PercentOf(income, 50), 100000)

\* The mutant of CalculateTotalDeductions: the RMF cap is the percentage of income only.
CalculateTotalDeductionsRmfByPercent(deductions, income) ==
    LET pf_max == Min(PercentOf(income, PROVIDENT_FUND_MAX_PERCENT), PROVIDENT_FUND_MAX)
        ssf_max == Min(PercentOf(income, SSF_MAX_PERCENT), SSF_MAX_AMOUNT)
        rmf_max == PercentOf(income, RMF_MAX_PERCENT)
    IN  deductions.personal
        + Min(deductions.spouse, SPOUSE_DEDUCTION)
        + deductions.children * CHILD_DEDUCTION
        + Min(deductions.parents, 4) * PARENT_DEDUCTION
        + Min(deductions.life_insurance, INSURANCE_LIFE_MAX)
        + Min(deductions.health_insurance, INSURANCE_HEALTH_MAX)
        + Min(deductions.social_security, SOCIAL_SECURITY_MAX)
        + Min(deductions.provident_fund, pf_max)
        + Min(deductions.ssf_current, ssf_max)
        + Min(deductions.rmf_current, rmf_max)
        + deductions.other_deductions

\* calculate_total_deductions
CalculateTotalDeductions(deductions, income) ==
    LET pf_max == Min(PercentOf(income, PROVIDENT_FUND_MAX_PERCENT), PROVIDENT_FUND_MAX)
        ssf_max == Min(PercentOf(income, SSF_MAX_PERCENT), SSF_MAX_AMOUNT)
        rmf_max == Min(PercentOf(income, RMF_MAX_PERCENT), RMF_MAX_AMOUNT)
    IN  deductions.personal
        + Min(deductions.spouse, SPOUSE_DEDUCTION)
        + deductions.children * CHILD_DEDUCTION
        + Min(deductions.parents, 4) * PARENT_DEDUCTION
        + Min(deductions.life_insurance, INSURANCE_LIFE_MAX)
        + Min(deductions.health_insurance, INSURANCE_HEALTH_MAX)
        + Min(deductions.social_security, SOCIAL_SECURITY_MAX)
        + Min(deductions.provident_fund, pf_max)
        + Min(deductions.ssf_current, ssf_max)
        + Min(deductions.rmf_current, rmf_max)
        + deductions.other_deductions

\* The mutant of EffectiveRate: the division is not guarded.
EffectiveRateUnguarded(tax, gross_income) == Rat(tax, gross_income)

\* effective_rate = (tax / gross_income * 100) if gross_income > 0 else 0, in percent
EffectiveRate(tax, gross_income) == IF gross_income > 0 THEN Rat(tax, gross_income) ELSE Zero

\* calculate_full_tax
CalculateFullTaxOf(gross_income, deductions, income_type) ==
    LET expense == CalculateExpenseDeduction(gross_income, income_type)
        total_deductions == CalculateTotalDeductions(deductions, gross_income)
        net_income == Max(0, gross_income - expense - total_deductions)
        taxed == CalculateTaxOf(net_income)
    IN  [gross_income |-> gross_income,
         expense_deduction |-> expense,
         total_deductions |-> total_deductions,
         net_income |-> net_income,
         tax_before_deduction |-> taxed[1],
         tax_after_deduction |-> taxed[1],
         effective_rate |-> EffectiveRate(taxed[1], gross_income),
         tax_bracket |-> taxed[2]]

\* The mutant of RmfRoomAfterSsf: the room of RMF ignores what SSF was given.
RmfRoomIgnoringSsf(combined_remaining, ssf_can_add) == combined_remaining

\* combined_remaining - ssf_can_add, the second argument of the min of rmf_can_add
RmfRoomAfterSsf(combined_remaining, ssf_can_add) == combined_remaining - ssf_can_add

\* calculate_ssf_rmf_recommendation; a saving is baht times percent (hundredths of baht)
CalculateSsfRmfRecommendationOf(gross_income, deductions, income_type) ==
    LET current_tax == CalculateFullTaxOf(gross_income, deductions, income_type)
        marginal_rate == GetMarginalRateOf(current_tax.net_income)
        ssf_max_allowed == Min(PercentOf(gross_income, SSF_MAX_PERCENT), SSF_MAX_AMOUNT)
        ssf_current == deductions.ssf_current
        rmf_max_allowed == Min(PercentOf(gross_income, RMF_MAX_PERCENT), RMF_MAX_AMOUNT)
        rmf_current == deductions.rmf_current
        combined_current == ssf_current + rmf_current + deductions.provident_fund
        combined_remaining == Max(0, RETIREMENT_COMBINED_MAX - combined_current)
        ssf_can_add == Min(ssf_max_allowed - ssf_current, combined_remaining)
        rmf_can_add == Min(rmf_max_allowed - rmf_current,
                           RmfRoomAfterSsf(combined_remaining, ssf_can_add))
        ssf_tax_saving == ssf_can_add * marginal_rate
        rmf_tax_saving == rmf_can_add * marginal_rate
    IN  [ssf_current |-> ssf_current,
         ssf_max_allowed |-> ssf_max_allowed,
         ssf_recommended |-> ssf_can_add,
         ssf_tax_saving |-> ssf_tax_saving,
         rmf_current |-> rmf_current,
         rmf_max_allowed |-> rmf_max_allowed,
         rmf_recommended |-> rmf_can_add,
         rmf_tax_saving |-> rmf_tax_saving,
         combined_current |-> combined_current,
         combined_max |-> RETIREMENT_COMBINED_MAX,
         combined_remaining |-> combined_remaining,
         total_tax_saving |-> ssf_tax_saving + rmf_tax_saving,
         marginal_rate |-> marginal_rate]

\* calculate_optimal_allocation
CalculateOptimalAllocationOf(gross_income, provident_fund, existing_ssf, existing_rmf) ==
    LET combined_existing == provident_fund + existing_ssf + existing_rmf
        room_remaining == Max(0, RETIREMENT_COMBINED_MAX - combined_existing)
        ssf_limit == Min(PercentOf(gross_income, SSF_MAX_PERCENT), SSF_MAX_AMOUNT)
        ssf_can_buy == Max(0, ssf_limit - existing_ssf)
        ssf_optimal == Min(ssf_can_buy, room_remaining)
        room_after_ssf == Max(0, room_remaining - ssf_optimal)
        rmf_limit == Min(PercentOf(gross_income, RMF_MAX_PERCENT), RMF_MAX_AMOUNT)
        rmf_can_buy == Max(0, rmf_limit - existing_rmf)
        rmf_optimal == Min(rmf_can_buy, room_after_ssf)
    IN  [ssf_optimal |-> ssf_optimal,
         rmf_optimal |-> rmf_optimal,
         total_optimal |-> ssf_optimal + rmf_optimal,
         room_used |-> ssf_optimal + rmf_optimal,
         room_remaining |-> room_remaining - ssf_optimal - rmf_optimal]

----------------------------------------------------------------------------
(* Input domains of the tax functions *)

\* The upper ends of the brackets that have one
BracketBoundaries == {TAX_BRACKETS_2567[k][1] : k \in 1..(Len(TAX_BRACKETS_2567) - 1)}

\* Net incomes: at, just under and just over every boundary, none, negative, large
NetIncomeArgs ==
    {-1, 0, 1, 6000000} \cup UNION {{b - 1, b, b + 1} : b \in BracketBoundaries}

\* Gross incomes: none; one whose SSF, RMF and provident-fund caps are the percentages
\* of income; one whose SSF cap is the absolute one; one whose caps are all absolute
GrossIncomeArgs == {0, 400000, 1200000, 4000000}

DefaultDeductions ==
    [personal |-> PERSONAL_DEDUCTION, spouse |-> 0, children |-> 0, parents |-> 0,
     life_insurance |-> 0, health_insurance |-> 0, social_security |-> 0,
     provident_fund |-> 0, ssf_current |-> 0, rmf_current |-> 0, other_deductions |-> 0]

\* The default record; one with every deduction used, some over their caps; one with
\* no personal deduction; one whose other deductions are negative; one whose SSF is
\* over its cap while the retirement funds are at the combined cap; one whose
\* retirement funds are over the combined cap; one with a provident fund only; one
\* that claims more than any cap of the source in every category
DeductionArgs ==
    { DefaultDeductions,
      [personal |-> PERSONAL_DEDUCTION, spouse |-> 70000, children |-> 2, parents |-> 5,
       life_insurance |-> 120000, health_insurance |-> 20000, social_security |-> 9000,
       provident_fund |-> 100000, ssf_current |-> 150000, rmf_current |-> 100000,
       other_deductions |-> 10000],
      [DefaultDeductions EXCEPT !.personal = 0],
      [DefaultDeductions EXCEPT !.other_deductions = -500000],
      [DefaultDeductions EXCEPT !.provident_fund = 150000, !.ssf_current = 250000,
                                !.rmf_current = 100000],
      [DefaultDeductions EXCEPT !.provident_fund = 200000, !.ssf_current = 200000,
                                !.rmf_current = 200000],
      [DefaultDeductions EXCEPT !.provident_fund = 100000],
      [personal |-> 100000, spouse |-> 600000, children |-> 5, parents |-> 6,
       life_insurance |-> 600000, health_insurance |-> 600000,
       social_security |-> 600000, provident_fund |-> 600000, ssf_current |-> 600000,
       rmf_current |-> 600000, other_deductions |-> 600000] }

IncomeTypeArgs == {"salary", "freelance", "business"}

----------------------------------------------------------------------------
(* Input domains of the direct _optimize_portfolio calls *)

\* Numbers of assets: up to three, and around the hundred where 1/n meets 1%
OptSizes == {1, 2, 3, 100, 101}

MaxOptCalls == 2

\* expected_returns: all assets alike, or the first one ahead
ExpectedReturnArgs(n) ==
    { Vec([i \in 1..n |-> Rat(5, 100)]),
      Vec([i \in 1..n |-> IF i = 1 THEN Rat(9, 100) ELSE Rat(5, 100)]) }

\* The point (first, second, 0, ..., 0) for n assets
PointOf(first, second, n) ==
    Vec([i \in 1..n |-> CASE i = 1 -> first [] i = 2 -> second [] OTHER -> Zero])

\* Points of the simplex the solver can stop at: the start w0 = 1/n each, a corner,
\* and points whose second weight is at, or under, 1%
SolverPoints(n) ==
    {EqualWeights(n)} \cup
    (IF n = 1 THEN {} ELSE {PointOf(One, Zero, n), PointOf(Rat(99, 100), Rat(1, 100), n),
                            PointOf(Rat(199, 200), Rat(1, 200), n)})

DirectSolverOutcomes(n) ==
    {[success |-> FALSE, x |-> EqualWeights(n)]} \cup
    {[success |-> TRUE, x |-> x] : x \in SolverPoints(n)}

----------------------------------------------------------------------------
(* portfolio_service.py: PortfolioService in mock mode                     *)
(*                                                                         *)
(* Amounts are whole baht and allocation weights whole thousandths (0.25   *)
(* is 250).  The time stamps and the texts of a portfolio and of a         *)
(* transaction play no part in the balances and are left out.              *)

\* an empty dict of the two stores
NoStores == [portfolios |-> EmptyDict, transactions |-> EmptyDict]

\* The Portfolio that _mock_get_portfolio creates for a user without one
NewPortfolio(user_id) ==
    [id |-> "portfolio-" \o user_id, user_id |-> user_id, total_value |-> 0,
     cash_balance |-> 0, ytd_return |-> 0, risk_score |-> 5,
     holdings |-> [a \in {"Thai Stock", "US Tech", "Gold", "Bonds"} |-> 0],
     target_allocation |->
         [a \in {"Thai Stock", "US Tech", "Gold", "Bonds"} |->
             CASE a = "Thai Stock" -> 250
               [] a = "US Tech" -> 350
               [] a = "Gold" -> 200
               [] a = "Bonds" -> 200]]

\* _mock_get_portfolio: the stores after it (a missing portfolio is created, with an
\* empty transaction list); the portfolio returned is the stored one
MockGetPortfolio(stores, user_id) ==
    IF user_id \in DOMAIN stores.portfolios THEN stores
    ELSE [portfolios |-> (user_id :> NewPortfolio(user_id)) @@ stores.portfolios,
          transactions |-> (user_id :> <<>>) @@ stores.transactions]

\* MOCK_TRANSACTIONS.get(user_id, [])
TransactionsOf(transactions, user_id) ==
    IF user_id \in DOMAIN transactions THEN transactions[user_id] ELSE <<>>

\* Transaction(id=f"tx-{len(MOCK_TRANSACTIONS.get(user_id, []))+1}", ...): the id is
\* kept as its number
NewTransaction(transactions, user_id, portfolio, type, amount) ==
    [id |-> Len(TransactionsOf(transactions, user_id)) + 1, portfolio_id |-> portfolio.id,
     type |-> type, amount |-> amount]

\* MOCK_TRANSACTIONS.setdefault(user_id, []).append(tx)
AppendTransaction(transactions, user_id, tx) ==
    (user_id :> Append(TransactionsOf(transactions, user_id), tx)) @@ transactions

\* _mock_deposit
MockDeposit(stores, user_id, amount) ==
    LET got == MockGetPortfolio(stores, user_id)
        portfolio == got.portfolios[user_id]
        tx == NewTransaction(got.transactions, user_id, portfolio, "deposit", amount)
    IN  [portfolios |->
             [got.portfolios EXCEPT ![user_id] =
                 [portfolio EXCEPT !.cash_balance = @ + amount, !.total_value = @ + amount]],
         transactions |-> AppendTransaction(got.transactions, user_id, tx)]

\* deposit in mock mode: the flag returned and the stores after the call
DepositOf(stores, user_id, amount) ==
    IF amount <= 0 THEN [returned |-> FALSE, stores |-> stores]
    ELSE [returned |-> TRUE, stores |-> MockDeposit(stores, user_id, amount)]

\* _mock_withdraw
MockWithdraw(stores, user_id, amount) ==
    LET portfolio == stores.portfolios[user_id]
        tx == NewTransaction(stores.transactions, user_id, portfolio, "withdraw", amount)
    IN  [portfolios |->
             [stores.portfolios EXCEPT ![user_id] =
                 [portfolio EXCEPT !.cash_balance = @ - amount, !.total_value = @ - amount]],
         transactions |-> AppendTransaction(stores.transactions, user_id, tx)]

\* The mutant of WithdrawalExceeds: the amount is held against the total value.
WithdrawalExceedsTotal(amount, portfolio) == amount > portfolio.total_value

\* if amount > portfolio.cash_balance
WithdrawalExceeds(amount, portfolio) == amount > portfolio.cash_balance

\* withdraw in mock mode
WithdrawOf(stores, user_id, amount) ==
    IF amount <= 0 THEN [returned |-> FALSE, stores |-> stores]
    ELSE LET got == MockGetPortfolio(stores, user_id)
         IN  IF WithdrawalExceeds(amount, got.portfolios[user_id])
             THEN [returned |-> FALSE, stores |-> got]
             ELSE [returned |-> TRUE, stores |-> MockWithdraw(got, user_id, amount)]

RECURSIVE SumOver(_, _)
SumOver(d, keys) ==
    IF keys = {} THEN 0
    ELSE LET k == CHOOSE k \in keys : TRUE IN d[k] + SumOver(d, keys \ {k})

\* sum(allocation.values())
SumValues(d) == SumOver(d, DOMAIN d)

\* dict d after d[k] = other[k] for every key of other
UpdatedWith(d, other) ==
    [k \in DOMAIN d \cup DOMAIN other |-> IF k \in DOMAIN other THEN other[k] ELSE d[k]]

\* _mock_invest
MockInvest(stores, user_id, allocation) ==
    LET portfolio == stores.portfolios[user_id]
        investment_amount == portfolio.cash_balance
        tx == NewTransaction(stores.transactions, user_id, portfolio, "buy",
                             investment_amount)
    IN  [portfolios |->
             [stores.portfolios EXCEPT ![user_id] =
                 [portfolio EXCEPT
                     !.cash_balance = 0,
                     !.holdings = UpdatedWith(@, allocation),
                     !.target_allocation = UpdatedWith(@, allocation)]],
         transactions |-> AppendTransaction(stores.transactions, user_id, tx)]

\* invest in mock mode; abs(total_alloc - 1.0) > 0.01 is in thousandths here
InvestOf(stores, user_id, allocation) ==
    IF Abs(SumValues(allocation) - 1000) > 10 THEN [returned |-> FALSE, stores |-> stores]
    ELSE LET got == MockGetPortfolio(stores, user_id)
         IN  IF got.portfolios[user_id].cash_balance <= 0
             THEN [returned |-> FALSE, stores |-> got]
             ELSE [returned |-> TRUE, stores |-> MockInvest(got, user_id, allocation)]

----------------------------------------------------------------------------
(* Input domains of the portfolio service *)

UserIds == {"u1", "u2"}

\* amounts of a deposit: negative, none, positive
DepositAmounts == {-100, 0, 100}

\* amounts of a withdrawal: none, one deposit, more than two deposits
WithdrawAmounts == {0, 100, 250}

NoAllocationArg == [a \in {} |-> 0]

\* allocations: summing to 1; summing to 1.005, within the tolerance; summing to 0.5
AllocationArgs ==
    { [a \in {"Gold", "Bonds"} |-> 500],
      [a \in {"Gold", "Bonds"} |-> IF a = "Gold" THEN 505 ELSE 500],
      [a \in {"Gold"} |-> 500] }

MaxServiceCalls == 4

----------------------------------------------------------------------------
(* auth.py: check_rate_limit, record_login_attempt, clear_login_attempts,  *)
(* SupabaseAuth.login in mock mode                                         *)
(*                                                                         *)
(* An email is a sequence of characters; times are whole seconds.          *)

\* str.lower() on one character
LowerChar(c) == CASE c = "A" -> "a" [] c = "B" -> "b" [] OTHER -> c

\* email.lower()
Lower(email) == [i \in 1..Len(email) |-> LowerChar(email[i])] \o <<>>

RECURSIVE StripLeft(_)
StripLeft(email) ==
    IF email # <<>> /\ Head(email) = " " THEN StripLeft(Tail(email)) ELSE email

RECURSIVE StripRight(_)
StripRight(email) ==
    IF email # <<>> /\ email[Len(email)] = " "
    THEN StripRight(SubSeq(email, 1, Len(email) - 1)) ELSE email

\* email.strip()
Strip(email) == StripRight(StripLeft(email))

\* email.lower().strip()
NormalizeEmail(email) == Strip(Lower(email))

\* hashlib.sha256(password.encode()).hexdigest(): different passwords, different digests
HashPassword(password) == <<"sha256", password>>

\* verify_password
VerifyPassword(password, hashed) == HashPassword(password) = hashed

\* MOCK_USERS, a user of the email "a"
MOCK_USERS ==
    [email \in {<<"a">>} |->
        [id |-> "user-001", password_hash |-> HashPassword("client123")]]

MAX_ATTEMPTS == 5

LOCKOUT_DURATION == 300

\* The mutant of IsRecent: an attempt made exactly LOCKOUT_DURATION ago still counts.
IsRecentInclusive(current_time, t) == current_time - t <= LOCKOUT_DURATION

\* if current_time - t < LOCKOUT_DURATION
IsRecent(current_time, t) == current_time - t < LOCKOUT_DURATION

\* LOGIN_ATTEMPTS[email], a defaultdict(list)
AttemptsOf(attempts, email) == IF email \in DOMAIN attempts THEN attempts[email] ELSE <<>>

\* check_rate_limit: whether the login is allowed, and LOGIN_ATTEMPTS after the cleaning
CheckRateLimit(attempts, raw_email, current_time) ==
    LET email == NormalizeEmail(raw_email)
        cleaned == SelectSeq(AttemptsOf(attempts, email),
                             LAMBDA t : IsRecent(current_time, t))
    IN  [is_allowed |-> ~(Len(cleaned) >= MAX_ATTEMPTS),
         attempts |-> (email :> cleaned) @@ attempts]

\* record_login_attempt
RecordLoginAttempt(attempts, raw_email, now) ==
    LET email == NormalizeEmail(raw_email)
    IN  (email :> Append(AttemptsOf(attempts, email), now)) @@ attempts

\* clear_login_attempts
ClearLoginAttempts(attempts, raw_email) == (NormalizeEmail(raw_email) :> <<>>) @@ attempts

\* _mock_login: the AuthResult and LOGIN_ATTEMPTS after the call
MockLogin(attempts, raw_email, password, now) ==
    LET email == NormalizeEmail(raw_email)
    IN  IF email \in DOMAIN MOCK_USERS
           /\ VerifyPassword(password, MOCK_USERS[email].password_hash)
        THEN [success |-> TRUE, error_code |-> "none", user |-> MOCK_USERS[email].id,
              attempts |-> ClearLoginAttempts(attempts, email)]
        ELSE [success |-> FALSE, error_code |-> "INVALID_CREDENTIALS", user |-> "none",
              attempts |-> RecordLoginAttempt(attempts, email, now)]

\* SupabaseAuth.login in mock mode, the clock reading now throughout the call
LoginOf(attempts, raw_email, password, now) ==
    LET checked == CheckRateLimit(attempts, raw_email, now)
    IN  IF ~checked.is_allowed
        THEN [success |-> FALSE, error_code |-> "RATE_LIMITED", user |-> "none",
              attempts |-> checked.attempts]
        ELSE MockLogin(checked.attempts, raw_email, password, now)

----------------------------------------------------------------------------
(* Input domains of the login *)

\* Emails as typed: the user's, the same in capitals with a trailing blank, the same
\* with a leading blank, and one of no user
EmailArgs == { <<"a">>, <<"A", " ">>, <<" ", "a">>, <<"b">> }

PasswordArgs == {"client123", "wrong"}

\* The clock moves by a second, or by a second less than the lockout
ClockSteps == {1, LOCKOUT_DURATION - 1}

MaxLogins == 6

MaxTicks == 2

----------------------------------------------------------------------------
(* The state machines.  Each part's calls are made on arguments drawn at the *)
(* start; the other part stays idle.                                         *)

NoDrift == [state |-> "none", rows |-> <<>>]

NoPlanArgs == [portfolio_value |-> 0, asset_prices |-> NoPrices, drift_threshold |-> 0]

NoPlan == [state |-> "none", actions |-> <<>>]

NoSeries == [state |-> "none", index |-> <<>>, values |-> <<>>]

NoSolver == [success |-> FALSE, x |-> <<>>]

NoCall == [state |-> "none", view_confidences |-> NoConfidences,
           steps |-> BlSteps("none", FALSE, <<>>, <<>>, <<>>, <<>>, <<>>, <<>>),
           optimized |-> <<>>, solver |-> NoSolver, weights |-> <<>>]

RbIdle ==
    /\ current_weights = EmptyDict
    /\ target_weights = EmptyDict
    /\ rb_pc = "idle"
    /\ drift_out = NoDrift
    /\ plan_args = NoPlanArgs
    /\ plan_out = NoPlan

BlIdle ==
    /\ cov_matrix = ZeroCov({})
    /\ market_weights = <<>>
    /\ views = <<>>
    /\ risk_aversion = Zero
    /\ risk_free_rate = Zero
    /\ tau = Zero
    /\ diag_writeable = FALSE
    /\ bl_pc = "idle"
    /\ eq_out = NoSeries
    /\ bl_calls = [c \in ConfidenceArgs |-> NoCall]

OptIdle ==
    /\ opt_n = 0
    /\ opt_calls = <<>>

NoMonteCarloArgs ==
    [current_wealth |-> Zero, monthly_contribution |-> Zero, years_to_retire |-> 0,
     annual_return |-> Zero, annual_volatility |-> Zero, n_simulations |-> 0,
     goal_amount |-> NoGoal]

NoSimulationResult ==
    [years |-> <<>>, paths |-> <<>>, percentile_10 |-> <<>>, percentile_50 |-> <<>>,
     percentile_90 |-> <<>>, final_values |-> <<>>, probability_of_success |-> Zero]

McIdle ==
    /\ mc_args = NoMonteCarloArgs
    /\ rng_state = 0
    /\ rng_start = 0
    /\ mc_pc = [th \in McThreads |-> "idle"]
    /\ mc_calls = [th \in McThreads |-> NoSimulationResult]
    /\ other_draws = <<>>

NoTaxArgs ==
    [net_income |-> 0, gross_income |-> 0, deductions |-> DefaultDeductions,
     income_type |-> "none"]

NoTaxResult ==
    [gross_income |-> 0, expense_deduction |-> 0, total_deductions |-> 0, net_income |-> 0,
     tax_before_deduction |-> 0, tax_after_deduction |-> 0, effective_rate |-> Zero,
     tax_bracket |-> "none"]

NoRecommendation ==
    [ssf_current |-> 0, ssf_max_allowed |-> 0, ssf_recommended |-> 0, ssf_tax_saving |-> 0,
     rmf_current |-> 0, rmf_max_allowed |-> 0, rmf_recommended |-> 0, rmf_tax_saving |-> 0,
     combined_current |-> 0, combined_max |-> 0, combined_remaining |-> 0,
     total_tax_saving |-> 0, marginal_rate |-> -1]

NoAllocation ==
    [ssf_optimal |-> 0, rmf_optimal |-> 0, total_optimal |-> 0, room_used |-> 0,
     room_remaining |-> -1]

TaxIdle ==
    /\ tax_args = NoTaxArgs
    /\ tax_called = {}
    /\ tax_out = <<0, "none">>
    /\ marginal_out = -1
    /\ full_out = NoTaxResult
    /\ rec_out = NoRecommendation
    /\ alloc_out = NoAllocation

NoServiceCall ==
    [op |-> "none", user_id |-> "none", amount |-> 0, allocation |-> NoAllocationArg,
     returned |-> FALSE]

PsIdle ==
    /\ ps_mode = "idle"
    /\ MOCK_PORTFOLIOS = EmptyDict
    /\ MOCK_TRANSACTIONS = EmptyDict
    /\ ps_count = 0
    /\ ps_before = NoStores
    /\ ps_last = NoServiceCall

NoLogin ==
    [email |-> <<>>, password |-> "none", time |-> 0, success |-> FALSE,
     error_code |-> "none", user |-> "none"]

AuthIdle ==
    /\ auth_mode = "idle"
    /\ LOGIN_ATTEMPTS = EmptyDict
    /\ auth_clock = 0
    /\ auth_logins = 0
    /\ auth_ticks = 0
    /\ auth_before = EmptyDict
    /\ auth_last = NoLogin

RbInit ==
    /\ current_weights \in Dicts(AssetNames, CurrentWeightValues)
    /\ target_weights \in Dicts(AssetNames, TargetWeightValues)
    /\ rb_pc = "ready"
    /\ drift_out = NoDrift
    /\ plan_args = NoPlanArgs
    /\ plan_out = NoPlan
    /\ BlIdle /\ OptIdle /\ McIdle /\ TaxIdle /\ PsIdle /\ AuthIdle

CalculateDrift ==
    /\ rb_pc = "ready"
    /\ \E table \in CalculateDriftResults(current_weights, target_weights) :
          drift_out' = [state |-> "ok", rows |-> table]
    /\ rb_pc' = "drift_done"
    /\ UNCHANGED <<current_weights, target_weights, plan_args, plan_out>>
    /\ UNCHANGED rb_others

\* Called on its own, or after calculate_drift on the same weights
GenerateActionPlan ==
    /\ rb_pc \in {"ready", "drift_done"}
    /\ \E pv \in PortfolioValues, prices \in PriceArgs, thr \in DriftThresholds :
          /\ plan_args' = [portfolio_value |-> pv, asset_prices |-> prices,
                           drift_threshold |-> thr]
          /\ plan_out' \in GenerateActionPlanResults(current_weights, target_weights,
                                                     pv, prices, thr)
    /\ rb_pc' = "plan_done"
    /\ UNCHANGED <<current_weights, target_weights, drift_out>>
    /\ UNCHANGED rb_others

RbNext == CalculateDrift \/ GenerateActionPlan

SpecRebalance == RbInit /\ [][RbNext]_vars

\* A direct call of _optimize_portfolio on expected returns of opt_n assets.  The
\* solver is a function of its arguments: on expected returns it was given before it
\* hands back what it did then.
OptimizePortfolio ==
    /\ opt_n > 0
    /\ Len(opt_calls) < MaxOptCalls
    /\ \E mu \in ExpectedReturnArgs(opt_n), outcome \in DirectSolverOutcomes(opt_n) :
          /\ \A i \in 1..Len(opt_calls) :
                opt_calls[i].expected_returns = mu => opt_calls[i].solver = outcome
          /\ opt_calls' = Append(opt_calls,
                                 [expected_returns |-> mu, solver |-> outcome,
                                  returned |-> OptimizePortfolioReturns(outcome, mu)])
    /\ UNCHANGED opt_n
    /\ UNCHANGED opt_others

OptInit ==
    /\ opt_n \in OptSizes
    /\ opt_calls = <<>>
    /\ RbIdle /\ BlIdle /\ McIdle /\ TaxIdle /\ PsIdle /\ AuthIdle

OptNext == OptimizePortfolio

SpecOpt == OptInit /\ [][OptNext]_vars

McInit ==
    /\ mc_args \in MonteCarloArgs
    /\ rng_state \in RngStartStates
    /\ rng_start = rng_state
    /\ mc_pc = [th \in McThreads |-> "ready"]
    /\ mc_calls = [th \in McThreads |-> NoSimulationResult]
    /\ other_draws = <<>>
    /\ RbIdle /\ BlIdle /\ OptIdle /\ TaxIdle /\ PsIdle /\ AuthIdle

\* Line 89 of run_monte_carlo in one thread: np.random.seed(42)
McSeed(th) ==
    /\ mc_pc[th] = "ready"
    /\ rng_state' = SeedDemo(rng_state)
    /\ mc_pc' = [mc_pc EXCEPT ![th] = "seeded"]
    /\ UNCHANGED <<mc_args, rng_start, mc_calls, other_draws>>
    /\ UNCHANGED mc_others

\* Lines 92-142 of run_monte_carlo in one thread: the draws of line 109 are taken
\* from the generator as it is then
McSimulate(th) ==
    /\ mc_pc[th] = "seeded"
    /\ mc_calls' = [mc_calls EXCEPT ![th] = Simulate(mc_args, RandomShocks(mc_args, rng_state))]
    /\ rng_state' = RngAfter(rng_state, mc_args.n_simulations * mc_args.years_to_retire * 12)
    /\ mc_pc' = [mc_pc EXCEPT ![th] = "done"]
    /\ UNCHANGED <<mc_args, rng_start, other_draws>>
    /\ UNCHANGED mc_others

\* A whole call of run_monte_carlo, nothing else running meanwhile
RunMonteCarlo(th) ==
    /\ mc_pc[th] = "ready"
    /\ \A other \in McThreads : mc_pc[other] # "seeded"
    /\ LET seeded == SeedDemo(rng_state)
       IN  /\ mc_calls' = [mc_calls EXCEPT ![th] =
                              Simulate(mc_args, RandomShocks(mc_args, seeded))]
           /\ rng_state' = RngAfter(seeded,
                                    mc_args.n_simulations * mc_args.years_to_retire * 12)
    /\ mc_pc' = [mc_pc EXCEPT ![th] = "done"]
    /\ UNCHANGED <<mc_args, rng_start, other_draws>>
    /\ UNCHANGED mc_others

\* Another user of the process-wide generator draws a value (np.random.normal)
OtherDraw ==
    /\ \E th \in McThreads : mc_pc[th] # "idle"
    /\ Len(other_draws) < MaxOtherDraws
    /\ other_draws' = Append(other_draws, RngValue(rng_state))
    /\ rng_state' = RngNext(rng_state)
    /\ UNCHANGED <<mc_args, rng_start, mc_pc, mc_calls>>
    /\ UNCHANGED mc_others

\* The calls made one after the other, other users drawing before and between them
McNext == (\E th \in McThreads : RunMonteCarlo(th)) \/ OtherDraw

SpecMC == McInit /\ [][McNext]_vars

\* The calls made in threads that run at the same time, other users drawing meanwhile
McThreadsNext ==
    \/ \E th \in McThreads : McSeed(th)
    \/ \E th \in McThreads : McSimulate(th)
    \/ OtherDraw

SpecMCThreads == McInit /\ [][McThreadsNext]_vars

TaxInit ==
    /\ tax_args \in [net_income : NetIncomeArgs, gross_income : GrossIncomeArgs,
                      deductions : DeductionArgs, income_type : IncomeTypeArgs]
    /\ tax_called = {}
    /\ tax_out = <<0, "none">>
    /\ marginal_out = -1
    /\ full_out = NoTaxResult
    /\ rec_out = NoRecommendation
    /\ alloc_out = NoAllocation
    /\ RbIdle /\ BlIdle /\ OptIdle /\ McIdle /\ PsIdle /\ AuthIdle

CalculateTax ==
    /\ tax_args.income_type # "none"
    /\ "calculate_tax" \notin tax_called
    /\ tax_out' = CalculateTaxOf(tax_args.net_income)
    /\ tax_called' = tax_called \cup {"calculate_tax"}
    /\ UNCHANGED <<tax_args, marginal_out, full_out, rec_out, alloc_out>>
    /\ UNCHANGED tax_others

GetMarginalRate ==
    /\ tax_args.income_type # "none"
    /\ "get_marginal_rate" \notin tax_called
    /\ marginal_out' = GetMarginalRateOf(tax_args.net_income)
    /\ tax_called' = tax_called \cup {"get_marginal_rate"}
    /\ UNCHANGED <<tax_args, tax_out, full_out, rec_out, alloc_out>>
    /\ UNCHANGED tax_others

CalculateFullTax ==
    /\ tax_args.income_type # "none"
    /\ "calculate_full_tax" \notin tax_called
    /\ full_out' = CalculateFullTaxOf(tax_args.gross_income, tax_args.deductions,
                                      tax_args.income_type)
    /\ tax_called' = tax_called \cup {"calculate_full_tax"}
    /\ UNCHANGED <<tax_args, tax_out, marginal_out, rec_out, alloc_out>>
    /\ UNCHANGED tax_others

CalculateSsfRmfRecommendation ==
    /\ tax_args.income_type # "none"
    /\ "calculate_ssf_rmf_recommendation" \notin tax_called
    /\ rec_out' = CalculateSsfRmfRecommendationOf(tax_args.gross_income, tax_args.deductions,
                                                   tax_args.income_type)
    /\ tax_called' = tax_called \cup {"calculate_ssf_rmf_recommendation"}
    /\ UNCHANGED <<tax_args, tax_out, marginal_out, full_out, alloc_out>>
    /\ UNCHANGED tax_others

\* Called with the income and the retirement funds of the same deductions record
CalculateOptimalAllocation ==
    /\ tax_args.income_type # "none"
    /\ "calculate_optimal_allocation" \notin tax_called
    /\ alloc_out' = CalculateOptimalAllocationOf(tax_args.gross_income,
                                                  tax_args.deductions.provident_fund,
                                                  tax_args.deductions.ssf_current,
                                                  tax_args.deductions.rmf_current)
    /\ tax_called' = tax_called \cup {"calculate_optimal_allocation"}
    /\ UNCHANGED <<tax_args, tax_out, marginal_out, full_out, rec_out>>
    /\ UNCHANGED tax_others

TaxNext ==
    \/ CalculateTax
    \/ GetMarginalRate
    \/ CalculateFullTax
    \/ CalculateSsfRmfRecommendation
    \/ CalculateOptimalAllocation

SpecTax == TaxInit /\ [][TaxNext]_vars

\* PortfolioService() in mock mode, the module's stores being empty
PsInit ==
    /\ ps_mode = "mock"
    /\ MOCK_PORTFOLIOS = EmptyDict
    /\ MOCK_TRANSACTIONS = EmptyDict
    /\ ps_count = 0
    /\ ps_before = NoStores
    /\ ps_last = NoServiceCall
    /\ RbIdle /\ BlIdle /\ OptIdle /\ McIdle /\ TaxIdle /\ AuthIdle

Stores == [portfolios |-> MOCK_PORTFOLIOS, transactions |-> MOCK_TRANSACTIONS]

\* What a call leaves: the stores, those before it, and the call with its flag
ServiceCallDone(op, user_id, amount, allocation, result) ==
    /\ MOCK_PORTFOLIOS' = result.stores.portfolios
    /\ MOCK_TRANSACTIONS' = result.stores.transactions
    /\ ps_before' = Stores
    /\ ps_last' = [op |-> op, user_id |-> user_id, amount |-> amount,
                   allocation |-> allocation, returned |-> result.returned]
    /\ ps_count' = ps_count + 1
    /\ UNCHANGED ps_mode
    /\ UNCHANGED ps_others

Deposit ==
    /\ ps_mode = "mock"
    /\ ps_count < MaxServiceCalls
    /\ \E user_id \in UserIds, amount \in DepositAmounts :
          ServiceCallDone("deposit", user_id, amount, NoAllocationArg,
                          DepositOf(Stores, user_id, amount))

Withdraw ==
    /\ ps_mode = "mock"
    /\ ps_count < MaxServiceCalls
    /\ \E user_id \in UserIds, amount \in WithdrawAmounts :
          ServiceCallDone("withdraw", user_id, amount, NoAllocationArg,
                          WithdrawOf(Stores, user_id, amount))

Invest ==
    /\ ps_mode = "mock"
    /\ ps_count < MaxServiceCalls
    /\ \E user_id \in UserIds, allocation \in AllocationArgs :
          ServiceCallDone("invest", user_id, 0, allocation,
                          InvestOf(Stores, user_id, allocation))

PsNext == Deposit \/ Withdraw \/ Invest

SpecPortfolio == PsInit /\ [][PsNext]_vars

\* SupabaseAuth() in mock mode, no attempt recorded
AuthInit ==
    /\ auth_mode = "mock"
    /\ LOGIN_ATTEMPTS = EmptyDict
    /\ auth_clock = 0
    /\ auth_logins = 0
    /\ auth_ticks = 0
    /\ auth_before = EmptyDict
    /\ auth_last = NoLogin
    /\ RbIdle /\ BlIdle /\ OptIdle /\ McIdle /\ TaxIdle /\ PsIdle

\* A call of login
Login ==
    /\ auth_mode = "mock"
    /\ auth_logins < MaxLogins
    /\ \E email \in EmailArgs, password \in PasswordArgs :
          LET result == LoginOf(LOGIN_ATTEMPTS, email, password, auth_clock)
          IN  /\ LOGIN_ATTEMPTS' = result.attempts
              /\ auth_last' = [email |-> email, password |-> password, time |-> auth_clock,
                               success |-> result.success,
                               error_code |-> result.error_code, user |-> result.user]
    /\ auth_before' = LOGIN_ATTEMPTS
    /\ auth_logins' = auth_logins + 1
    /\ UNCHANGED <<auth_mode, auth_clock, auth_ticks>>
    /\ UNCHANGED auth_others

\* Time passes between two logins
Tick ==
    /\ auth_mode = "mock"
    /\ auth_ticks < MaxTicks
    /\ \E step \in ClockSteps : auth_clock' = auth_clock + step
    /\ auth_ticks' = auth_ticks + 1
    /\ UNCHANGED <<auth_mode, LOGIN_ATTEMPTS, auth_logins, auth_before, auth_last>>
    /\ UNCHANGED auth_others

AuthNext == Login \/ Tick

SpecAuth == AuthInit /\ [][AuthNext]_vars

BlInit ==
    /\ cov_matrix \in CovArgs
    /\ market_weights \in MarketWeightArgs
    /\ views \in ViewArgs
    /\ risk_aversion \in RiskAversionArgs
    /\ risk_free_rate \in RiskFreeArgs
    /\ tau \in TauArgs
    /\ diag_writeable \in BOOLEAN
    /\ bl_pc = "ready"
    /\ eq_out = NoSeries
    /\ bl_calls = [c \in ConfidenceArgs |-> NoCall]
    /\ RbIdle /\ OptIdle /\ McIdle /\ TaxIdle /\ PsIdle /\ AuthIdle

\* The caller computes the equilibrium returns (app.py calls it before black_litterman)
CalculateEquilibriumReturns ==
    /\ bl_pc = "ready"
    /\ eq_out' = CalculateEquilibriumReturnsOf(cov_matrix, market_weights,
                                               risk_aversion, risk_free_rate)
    /\ bl_pc' = "eq_done"
    /\ UNCHANGED <<bl_inputs, bl_calls>>
    /\ UNCHANGED bl_others

\* The solver is a function of its arguments: on expected returns it was given in an
\* earlier call it hands back what it did then
SolverAgrees(outcome, expected_returns) ==
    \A c \in ConfidenceArgs :
        (bl_calls[c].state = "ok" /\ bl_calls[c].optimized = expected_returns)
            => outcome = bl_calls[c].solver

\* The view_confidences arguments that black_litterman has been called with
BlCalled == {c \in ConfidenceArgs : bl_calls[c].state # "none"}

\* A call of black_litterman, with a view_confidences argument not tried before
BlackLitterman ==
    /\ bl_pc \in {"ready", "bl_done"}
    /\ Cardinality(BlCalled) < MaxBlCalls
    /\ \E conf \in ConfidenceArgs :
          /\ bl_calls[conf].state = "none"
          /\ LET steps == BlackLittermanReturns(cov_matrix, market_weights, views, conf, tau,
                                                risk_aversion, risk_free_rate, diag_writeable)
             IN  IF steps.state # "ok"
                 THEN bl_calls' = [bl_calls EXCEPT ![conf] =
                                      [state |-> steps.state, view_confidences |-> conf,
                                       steps |-> steps, optimized |-> <<>>,
                                       solver |-> NoSolver, weights |-> <<>>]]
                 ELSE \E outcome \in SolverOutcomes(Len(steps.posterior)) :
                         /\ SolverAgrees(outcome, steps.posterior)
                         /\ bl_calls' = [bl_calls EXCEPT ![conf] =
                                            [state |-> "ok", view_confidences |-> conf,
                                             steps |-> steps, optimized |-> steps.posterior,
                                             solver |-> outcome,
                                             weights |-> OptimizePortfolioWith(
                                                             outcome, steps.posterior)]]
    /\ bl_pc' = "bl_done"
    /\ UNCHANGED <<bl_inputs, eq_out>>
    /\ UNCHANGED bl_others

BlNext == CalculateEquilibriumReturns \/ BlackLitterman

\* Every numpy: np.diag of a matrix read-only (NumPy 1.9 and later) or a copy (before)
SpecBL == BlInit /\ [][BlNext]_vars

\* The numpy of today: np.diag of a matrix is a read-only view
BlInitCurrent == BlInit /\ ~diag_writeable

SpecBLCurrent == BlInitCurrent /\ [][BlNext]_vars

----------------------------------------------------------------------------
(* Properties of the rebalancing advisor.  They are stated on the arguments *)
(* and results of the calls, not through the operators above.               *)

\* The drift of an asset as the documentation defines it: current - target, a
\* missing weight being 0
DocDrift(a) ==
    (IF a \in DOMAIN current_weights THEN current_weights[a] ELSE 0)
    - (IF a \in DOMAIN target_weights THEN target_weights[a] ELSE 0)

DocUnion == DOMAIN current_weights \cup DOMAIN target_weights

PlanReturned == rb_pc = "plan_done" /\ plan_out.state = "ok"

PlanAssets == {plan_out.actions[i].asset : i \in 1..Len(plan_out.actions)}

\* C1: generate_action_plan has an action for an asset if and only if the asset is
\* in one of the two dicts and |current - target| > drift_threshold (a drift equal
\* to the threshold gives none); no asset has two actions; and when no drift
\* exceeds the threshold the list is empty.
C1_ActionIffDriftExceedsThreshold ==
    PlanReturned =>
        LET acts == plan_out.actions
            thr  == plan_args.drift_threshold
        IN  /\ \A a \in AssetNames :
                 (a \in PlanAssets) <=> (a \in DocUnion /\ Abs(DocDrift(a)) > thr)
            /\ \A i, j \in 1..Len(acts) : acts[i].asset = acts[j].asset => i = j
            /\ (\A a \in DocUnion : Abs(DocDrift(a)) <= thr) => acts = <<>>

\* A plan in which one asset drifts by exactly the threshold and gets no action
\* while another drifts by more and gets one.
C1_Witness ==
    /\ PlanReturned
    /\ plan_args.drift_threshold = DefaultDriftThreshold
    /\ \E a \in DocUnion :
          Abs(DocDrift(a)) = plan_args.drift_threshold /\ a \notin PlanAssets
    /\ \E a \in DocUnion :
          Abs(DocDrift(a)) > plan_args.drift_threshold /\ a \in PlanAssets

\* C2 as stated: consecutive actions have non-increasing trade_amount, for any
\* portfolio value.
C2_DescendingTradeAmount ==
    PlanReturned =>
        \A i \in 1..(Len(plan_out.actions) - 1) :
            plan_out.actions[i].trade_amount >= plan_out.actions[i + 1].trade_amount

\* C2 amended: consecutive actions have non-increasing |trade_amount| (the sort
\* key); this is non-increasing trade_amount when portfolio_value >= 0.
C2_DescendingAbsTradeAmount ==
    PlanReturned =>
        \A i \in 1..(Len(plan_out.actions) - 1) :
            LET x == plan_out.actions[i].trade_amount
                y == plan_out.actions[i + 1].trade_amount
            IN  /\ Abs(x) >= Abs(y)
                /\ plan_args.portfolio_value >= 0 => x >= y

\* A plan of three actions with three different amounts.
C2_Witness ==
    /\ PlanReturned
    /\ Len(plan_out.actions) = 3
    /\ plan_args.portfolio_value > 0
    /\ \A i, j \in 1..3 :
          plan_out.actions[i].trade_amount = plan_out.actions[j].trade_amount => i = j

\* C3: every action carries drift = current - target, is a SELL when the drift is
\* positive and a BUY when it is negative, and no action has drift 0.
C3_DirectionFollowsDriftSign ==
    PlanReturned =>
        \A i \in 1..Len(plan_out.actions) :
            LET x == plan_out.actions[i]
            IN  /\ x.drift = DocDrift(x.asset)
                /\ x.drift # 0
                /\ x.drift > 0 => x.action = "SELL"
                /\ x.drift < 0 => x.action = "BUY"

\* A plan holding a SELL and a BUY.
C3_Witness ==
    /\ PlanReturned
    /\ \E i, j \in 1..Len(plan_out.actions) :
          /\ plan_out.actions[i].action = "SELL" /\ plan_out.actions[i].drift > 0
          /\ plan_out.actions[j].action = "BUY" /\ plan_out.actions[j].drift < 0

\* The unit price the documentation gives an asset: its entry in the price table
\* (the built-in table when none is passed), 100 without an entry
DocUnitPrice(a) ==
    LET table == IF plan_args.asset_prices.given THEN plan_args.asset_prices.table
                 ELSE DefaultPriceTable
    IN  IF a \in DOMAIN table THEN table[a] ELSE 100

\* n = floor(amount / price), amounts in hundredths of currency, price # 0
IsFloorOf(n, amount, price) ==
    IF price > 0
    THEN n * price * 100 <= amount /\ amount < (n + 1) * price * 100
    ELSE n * price * 100 >= amount /\ amount > (n + 1) * price * 100

\* n = amount / price with the fraction dropped (rounded toward zero), price # 0
IsTruncationOf(n, amount, price) ==
    /\ Abs(n) * Abs(price) * 100 <= Abs(amount)
    /\ Abs(amount) < (Abs(n) + 1) * Abs(price) * 100
    /\ n > 0 => (amount > 0) = (price > 0)
    /\ n < 0 => (amount > 0) # (price > 0)

\* C4 as stated: trade_amount = |drift| * portfolio_value and trade_units =
\* floor(trade_amount / unit_price), for every portfolio value and price accepted.
C4_UnitsAreFloor ==
    PlanReturned =>
        \A i \in 1..Len(plan_out.actions) :
            LET x == plan_out.actions[i]
            IN  /\ x.trade_amount = Abs(DocDrift(x.asset)) * plan_args.portfolio_value
                /\ IsFloorOf(x.trade_units, x.trade_amount, DocUnitPrice(x.asset))

\* C4 amended: trade_amount = |drift| * portfolio_value and trade_units is
\* trade_amount / unit_price rounded toward zero, which is the floor whenever
\* that quotient is not negative.
C4_UnitsAreTruncation ==
    PlanReturned =>
        \A i \in 1..Len(plan_out.actions) :
            LET x == plan_out.actions[i]
                p == DocUnitPrice(x.asset)
            IN  /\ x.trade_amount = Abs(DocDrift(x.asset)) * plan_args.portfolio_value
                /\ p # 0
                /\ IsTruncationOf(x.trade_units, x.trade_amount, p)
                /\ (x.trade_amount = 0 \/ (x.trade_amount > 0) = (p > 0))
                      => IsFloorOf(x.trade_units, x.trade_amount, p)

\* A plan with an action whose quotient has a fraction, for an asset priced by the
\* table, and one for an asset priced by the default.
C4_Witness ==
    /\ PlanReturned
    /\ plan_args.asset_prices.given
    /\ \E i, j \in 1..Len(plan_out.actions) :
          LET x == plan_out.actions[i]
              y == plan_out.actions[j]
          IN  /\ x.asset \in DOMAIN plan_args.asset_prices.table
              /\ x.trade_units > 0
              /\ x.trade_units * DocUnitPrice(x.asset) * 100 # x.trade_amount
              /\ y.asset \notin DOMAIN plan_args.asset_prices.table
              /\ y.trade_units > 0

C6_StatusByDriftMagnitude ==
    rb_pc = "drift_done" =>
        /\ \A a \in DocUnion :
              Cardinality({i \in 1..Len(drift_out.rows) : drift_out.rows[i].Asset = a}) = 1
        /\ \A i \in 1..Len(drift_out.rows) :
              LET r == drift_out.rows[i]
                  m == Abs(DocDrift(r.Asset))
              IN  /\ r.Status \in {"ON_TARGET", "MONITOR", "REBALANCE_NEEDED"}
                  /\ r.Status = "ON_TARGET" <=> m <= 2
                  /\ r.Status = "MONITOR" <=> (2 < m /\ m <= 5)
                  /\ r.Status = "REBALANCE_NEEDED" <=> m > 5
        /\ ( /\ current_weights = [a \in {"A", "B"} |-> IF a = "A" THEN 60 ELSE 40]
             /\ target_weights = [a \in {"A", "B"} |-> 50] )
           => drift_out.rows =
                << [Asset |-> "A", Current |-> 60, Target |-> 50, Drift |-> 10,
                    Status |-> "REBALANCE_NEEDED"],
                   [Asset |-> "B", Current |-> 40, Target |-> 50, Drift |-> -10,
                    Status |-> "REBALANCE_NEEDED"] >>

\* The table of the example.
C6_Witness ==
    /\ rb_pc = "drift_done"
    /\ current_weights = [a \in {"A", "B"} |-> IF a = "A" THEN 60 ELSE 40]
    /\ target_weights = [a \in {"A", "B"} |-> 50]
    /\ \A i \in 1..Len(drift_out.rows) : drift_out.rows[i].Status = "REBALANCE_NEEDED"

----------------------------------------------------------------------------
(* Properties of the equilibrium engine and the Black-Litterman blender.  *)

BlAssets == Keys(market_weights)

\* The documented equilibrium return of the i-th asset:
\* risk_aversion * (Sigma @ w_mkt)[i] + risk_free_rate
DocEquilibrium(i) ==
    RAdd(RMul(risk_aversion,
              RSum(Vec([j \in 1..Len(BlAssets) |->
                           RMul(cov_matrix.entry[<<BlAssets[i], BlAssets[j]>>],
                                market_weights[j][2])]),
                   Len(BlAssets))),
         risk_free_rate)

DocEquilibriumVector == Vec([i \in 1..Len(BlAssets) |-> DocEquilibrium(i)])

CovarianceCoversAssets == \A i \in 1..Len(BlAssets) : BlAssets[i] \in cov_matrix.index

IsExampleInput ==
    /\ market_weights = << <<"X", Rat(6, 10)>>, <<"Y", Rat(4, 10)>> >>
    /\ cov_matrix = ExampleCov({"X", "Y"})
    /\ risk_aversion = Rat(5, 2)
    /\ risk_free_rate = Rat(2, 100)

\* C7: calculate_equilibrium_returns returns one value per asset of market_weights,
\* risk_aversion * (Sigma @ w_mkt) + risk_free_rate; every value is risk_free_rate
\* when risk_aversion is 0 or the covariance is zero; and for weights
\* {X: 0.6, Y: 0.4}, covariance [[0.04, 0.01], [0.01, 0.09]], risk_aversion 2.5 and
\* risk_free_rate 0.02 the result is 0.09 and 0.125.
C7_EquilibriumIsMatrixFormula ==
    (bl_pc = "eq_done" /\ eq_out.state = "ok") =>
        /\ eq_out.index = BlAssets
        /\ Len(eq_out.values) = Len(market_weights)
        /\ \A i \in 1..Len(BlAssets) : eq_out.values[i] = DocEquilibrium(i)
        /\ ( \/ risk_aversion = Zero
             \/ \A i, j \in 1..Len(BlAssets) :
                   cov_matrix.entry[<<BlAssets[i], BlAssets[j]>>] = Zero )
           => \A i \in 1..Len(BlAssets) : eq_out.values[i] = risk_free_rate
        /\ IsExampleInput => eq_out.values = <<Rat(9, 100), Rat(125, 1000)>>

\* The equilibrium returns of the example.
C7_Witness ==
    /\ bl_pc = "eq_done"
    /\ eq_out.state = "ok"
    /\ IsExampleInput
    /\ eq_out.values = <<Rat(9, 100), Rat(1, 8)>>

\* What _optimize_portfolio is documented to make of a solver result: the point x,
\* or 1/n each when the solver failed, with the weights under 1% zeroed and the
\* rest divided by their sum
DocOptimized(solver, n) ==
    LET w == IF solver.success THEN solver.x ELSE Vec([i \in 1..n |-> Rat(1, n)])
        kept == Vec([i \in 1..n |-> IF RLess(w[i], Rat(1, 100)) THEN Zero ELSE w[i]])
        total == RSum(kept, n)
    IN  Vec([i \in 1..n |-> RDiv(kept[i], total)])

\* C8: with an empty view set black_litterman returns the equilibrium vector as the
\* posterior and the optimizer's result on that vector as the weights, and builds no
\* pick or uncertainty matrix.
C8_NoViewsGivesEquilibrium ==
    \A c \in ConfidenceArgs :
        (views = <<>> /\ bl_calls[c].state # "none" /\ CovarianceCoversAssets) =>
            /\ bl_calls[c].state = "ok"
            /\ bl_calls[c].steps.posterior = DocEquilibriumVector
            /\ ~bl_calls[c].steps.built
            /\ bl_calls[c].steps.P = <<>> /\ bl_calls[c].steps.omega_raw = <<>>
            /\ bl_calls[c].optimized = DocEquilibriumVector
            /\ bl_calls[c].weights = DocOptimized(bl_calls[c].solver, Len(BlAssets))
            /\ \A d \in ConfidenceArgs :
                  bl_calls[d].state = "ok" => bl_calls[d].weights = bl_calls[c].weights

\* Two calls without views on the two-asset example, which the solver solved.
C8_Witness ==
    /\ views = <<>>
    /\ IsExampleInput
    /\ \E c, d \in ConfidenceArgs :
          /\ c # d
          /\ bl_calls[c].state = "ok" /\ bl_calls[d].state = "ok"
          /\ bl_calls[c].solver.success
          /\ bl_calls[c].weights = <<One, Zero>>

\* The views on assets that market_weights holds
KnownViews == SelectSeq(views, LAMBDA v : IsAsset(BlAssets, v[1]))

\* C9 as stated: a view on an asset outside the asset set leaves its pick-matrix row
\* all zero and is a silent no-op: the call raises nothing and its posterior is the
\* one the call has without that view.
C9_UnknownViewIsNoOp ==
    \A c \in ConfidenceArgs :
        ( /\ bl_calls[c].state # "none"
          /\ CovarianceCoversAssets
          /\ KnownViews # views ) =>
            /\ bl_calls[c].state = "ok"
            /\ \A i \in 1..Len(views) :
                  ~IsAsset(BlAssets, views[i][1]) =>
                      \A j \in 1..Len(BlAssets) : bl_calls[c].steps.P[i][j] = Zero
            /\ bl_calls[c].steps.posterior =
                  BlackLittermanReturns(cov_matrix, market_weights, KnownViews, c, tau,
                                        risk_aversion, risk_free_rate,
                                        diag_writeable).posterior

\* |x - y|
Distance(x, y) == RAbs(RSub(x, y))

FullConfidence == [given |-> TRUE, dict |-> [a \in {"X", "Y", "Z"} |-> One]]

LowConfidence == [given |-> TRUE, dict |-> [a \in {"X", "Y", "Z"} |-> Rat(1, 10)]]

\* One view, on an asset of market_weights, whose return is not the equilibrium return
OneViewOffEquilibrium ==
    /\ Len(views) = 1
    /\ IsAsset(BlAssets, views[1][1])
    /\ CovarianceCoversAssets
    /\ views[1][2] # DocEquilibrium(IndexOf(BlAssets, views[1][1]))

\* C10 as stated: for one view on an asset, the posterior return of the asset that
\* black_litterman produces with confidence 1.0 is strictly closer to the view than the
\* one it produces with confidence 0.1.
C10_PosteriorCloserWithConfidence ==
    ( /\ OneViewOffEquilibrium
      /\ bl_calls[FullConfidence].state # "none"
      /\ bl_calls[LowConfidence].state # "none"
      /\ ~IsSingular(LocValues(cov_matrix, BlAssets)) ) =>
        /\ bl_calls[FullConfidence].state = "ok"
        /\ bl_calls[LowConfidence].state = "ok"
        /\ LET k == IndexOf(BlAssets, views[1][1])
           IN  RLess(Distance(bl_calls[FullConfidence].steps.posterior[k], views[1][2]),
                     Distance(bl_calls[LowConfidence].steps.posterior[k], views[1][2]))

\* What the code's formulas give where omega_diag can be written (np.diag a copy):
\* whenever both calls return, the posterior with confidence 1.0 is strictly closer.
PosteriorCloserWhereDiagWriteable ==
    ( /\ OneViewOffEquilibrium
      /\ bl_calls[FullConfidence].state = "ok"
      /\ bl_calls[LowConfidence].state = "ok" ) =>
        LET k == IndexOf(BlAssets, views[1][1])
        IN  RLess(Distance(bl_calls[FullConfidence].steps.posterior[k], views[1][2]),
                  Distance(bl_calls[LowConfidence].steps.posterior[k], views[1][2]))

BothConfidencesReturned ==
    /\ OneViewOffEquilibrium
    /\ bl_calls[FullConfidence].state = "ok"
    /\ bl_calls[LowConfidence].state = "ok"

\* tau * Sigma of the call
TauSigma == MatScale(tau, LocValues(cov_matrix, BlAssets))

\* A float that is neither NaN nor an infinity
IsFinite(x) == x.den # 0

\* The documented uncertainty of the i-th view under view_confidences c:
\* (P (tau Sigma) P')[i][i] / max(confidence, 0.1), 0 for a view on no asset
DocOmega(c, i) ==
    IF IsAsset(BlAssets, views[i][1])
    THEN LET k == IndexOf(BlAssets, views[i][1])
         IN  RDiv(TauSigma[k][k], RMax(ConfidenceOf(c, views[i][1]), ConfidenceFloor))
    ELSE Zero

\* A diagonal matrix is singular when an entry of its diagonal is 0
OmegaIsSingular(c) == \E i \in 1..Len(views) : DocOmega(c, i) = Zero

\* A call of black_litterman on a singular tau * Sigma or a singular Omega
SingularCall(c) ==
    /\ bl_calls[c].state # "none"
    /\ CovarianceCoversAssets
    /\ Det(TauSigma) = Zero \/ (views # <<>> /\ OmegaIsSingular(c))

\* C11 as stated: whenever tau * Sigma or Omega is singular, black_litterman ends in a
\* singular-matrix error, and it never returns a posterior holding NaN or an infinity.
C11_SingularRaisesSingularMatrixError ==
    \A c \in ConfidenceArgs :
        /\ SingularCall(c) => bl_calls[c].state = "LinAlgError"
        /\ \A i \in 1..Len(bl_calls[c].steps.posterior) :
              IsFinite(bl_calls[c].steps.posterior[i])

\* C11: a call with views on a singular tau * Sigma or Omega ends in an error and returns
\* nothing: LinAlgError from np.linalg.inv, or the ValueError of the write to omega_diag
\* where numpy makes that array read-only; a call without views inverts no matrix and
\* returns the equilibrium vector; no posterior returned holds NaN or an infinity.
C11_SingularNeverYieldsNaN ==
    \A c \in ConfidenceArgs :
        /\ (SingularCall(c) /\ views # <<>>) =>
              /\ bl_calls[c].state = (IF diag_writeable THEN "LinAlgError" ELSE "ValueError")
              /\ bl_calls[c].steps.posterior = <<>>
              /\ bl_calls[c].weights = <<>>
        /\ (SingularCall(c) /\ views = <<>>) =>
              /\ bl_calls[c].state = "ok"
              /\ bl_calls[c].steps.posterior = DocEquilibriumVector
        /\ \A i \in 1..Len(bl_calls[c].steps.posterior) :
              IsFinite(bl_calls[c].steps.posterior[i])

\* A call with a view on the perfectly correlated covariance, whose tau * Sigma is
\* singular and not zero, has ended in an error.
C11_Witness ==
    /\ cov_matrix = CorrelatedCov
    /\ views # <<>>
    /\ \E c \in ConfidenceArgs :
          /\ SingularCall(c)
          /\ ~OmegaIsSingular(c)
          /\ bl_calls[c].state \in {"LinAlgError", "ValueError"}

----------------------------------------------------------------------------
(* Properties of the portfolio optimizer.                                  *)

\* x <= y for floats; every comparison with NaN is false
RLeq(x, y) == x.den # 0 /\ y.den # 0 /\ ~RLess(y, x)

\* A weight vector that sums to 1 and has every weight in [0, 1]
IsWeightVector(w) ==
    /\ RSum(w, Len(w)) = One
    /\ \A i \in 1..Len(w) : RLeq(Zero, w[i]) /\ RLeq(w[i], One)

\* C12 as stated: the weights returned by _optimize_portfolio, from the solver result or
\* from the equal-weight fallback, sum to 1.0 and lie in [0, 1], for any number of assets.
C12_WeightsSumToOne ==
    \A k \in 1..Len(opt_calls) : IsWeightVector(opt_calls[k].returned.values)

\* What the code does ensure: the same, for at most 100 assets, where 1/n is not
\* under the 1% below which a weight is zeroed.
WeightsSumToOneUpTo100Assets ==
    opt_n <= 100 => \A k \in 1..Len(opt_calls) : IsWeightVector(opt_calls[k].returned.values)

\* With 101 assets the fallback has returned a vector of NaN.
FallbackOf101AssetsIsNaN ==
    /\ opt_n = 101
    /\ \E k \in 1..Len(opt_calls) :
          /\ ~opt_calls[k].solver.success
          /\ \A i \in 1..opt_n : opt_calls[k].returned.values[i] = NaN

\* C13 as stated: when the solver does not converge _optimize_portfolio returns the equal
\* weights 1/n, and what it returns tells a fallback from a converged result: no two
\* calls return the same value, one from a solver that converged and one from the
\* fallback.
C13_FallbackIsObservable ==
    \A k \in 1..Len(opt_calls) :
        /\ (~opt_calls[k].solver.success /\ opt_n <= 100) =>
              opt_calls[k].returned.values = Vec([i \in 1..opt_n |-> Rat(1, opt_n)])
        /\ \A j \in 1..Len(opt_calls) :
              opt_calls[j].returned = opt_calls[k].returned
                  => opt_calls[j].solver.success = opt_calls[k].solver.success

\* A fallback and a converged result that the caller cannot tell apart.
FallbackLooksConverged ==
    \E j, k \in 1..Len(opt_calls) :
        /\ opt_calls[j].solver.success /\ ~opt_calls[k].solver.success
        /\ opt_calls[j].returned = opt_calls[k].returned

----------------------------------------------------------------------------
(* Properties of the Monte Carlo simulation.                               *)

McPeriods == mc_args.years_to_retire * 12

\* The constant growth factor exp(annual_return / 12)
DocGrowth == Exp(RDiv(mc_args.annual_return, Rat(12, 1)))

\* The shocks that a call draws when nothing else touches the generator meanwhile
ShocksOfSeed == RandomShocks(mc_args, RngSeeded(SeedOfDemo))

\* C14: with annual_volatility = 0 every path of run_monte_carlo is the same: it starts at
\* current_wealth and each later value is the one before times exp(annual_return / 12)
\* plus monthly_contribution, over years_to_retire * 12 steps, whatever was drawn; the
\* 10th, 50th and 90th percentiles coincide at every step.
C14_ZeroVolatilityIsDeterministic ==
    \A th \in McThreads :
        (mc_pc[th] = "done" /\ mc_args.annual_volatility = Zero) =>
            LET result == mc_calls[th]
            IN  /\ Len(result.paths) = mc_args.n_simulations
                /\ \A i \in 1..mc_args.n_simulations :
                      /\ Len(result.paths[i]) = McPeriods + 1
                      /\ result.paths[i][1] = mc_args.current_wealth
                      /\ \A t \in 1..McPeriods :
                            result.paths[i][t + 1] =
                                RAdd(RMul(result.paths[i][t], DocGrowth),
                                     mc_args.monthly_contribution)
                /\ \A t \in 1..(McPeriods + 1) :
                      /\ result.percentile_10[t] = result.paths[1][t]
                      /\ result.percentile_50[t] = result.paths[1][t]
                      /\ result.percentile_90[t] = result.paths[1][t]

\* Three paths over twelve months without volatility, drawn with different shocks, where
\* the wealth grows.
C14_Witness ==
    /\ mc_args.annual_volatility = Zero
    /\ mc_args.n_simulations = 3 /\ mc_args.years_to_retire = 1
    /\ mc_args.annual_return # Zero
    /\ ShocksOfSeed[1] # ShocksOfSeed[2]
    /\ \E th \in McThreads :
          /\ mc_pc[th] = "done"
          /\ RLess(mc_args.current_wealth, mc_calls[th].final_values[3])

\* C15: two calls of run_monte_carlo with the same arguments (the seed is the same in
\* every call) return the same percentile arrays and the same final values, whatever
\* was drawn from the generator before and between them.
C15_SameSeedSameResult ==
    \A th, other \in McThreads :
        (mc_pc[th] = "done" /\ mc_pc[other] = "done") =>
            /\ mc_calls[th].percentile_10 = mc_calls[other].percentile_10
            /\ mc_calls[th].percentile_50 = mc_calls[other].percentile_50
            /\ mc_calls[th].percentile_90 = mc_calls[other].percentile_90
            /\ mc_calls[th].final_values = mc_calls[other].final_values
            /\ mc_calls[th].paths = mc_calls[other].paths

\* Two calls with volatility have returned, the generator having started elsewhere than
\* at the seed and others having drawn from it.
C15_Witness ==
    /\ \A th \in McThreads : mc_pc[th] = "done"
    /\ mc_args.annual_volatility # Zero
    /\ mc_args.n_simulations = 3 /\ mc_args.years_to_retire = 1
    /\ rng_start # RngSeeded(SeedOfDemo)
    /\ other_draws # <<>>
    /\ mc_calls[1].percentile_10 # mc_calls[1].percentile_90

\* C16 as stated: run_monte_carlo neither reads nor modifies the process-wide generator:
\* a call that runs interleaved with other calls and other users of the generator
\* returns what it returns alone, and the values the other users draw are the ones they
\* would have drawn without it.
C16_NoSharedRandomState ==
    /\ \A th \in McThreads :
          mc_pc[th] = "done" => mc_calls[th] = Simulate(mc_args, ShocksOfSeed)
    /\ \A k \in 1..Len(other_draws) :
          other_draws[k] = RngValue(RngAfter(rng_start, k - 1))

\* A call whose result is not the one it has alone.
InterleavedCallDiffers ==
    \E th \in McThreads :
        /\ mc_pc[th] = "done"
        /\ mc_calls[th].final_values # Simulate(mc_args, ShocksOfSeed).final_values

\* Another user's draw is not the one it would have been without the calls.
OtherStreamDisturbed ==
    \E k \in 1..Len(other_draws) : other_draws[k] # RngValue(RngAfter(rng_start, k - 1))

\* C17: probability_of_success is the number of paths whose final value is at least
\* goal_amount over n_simulations when a goal is given, a final value equal to the goal
\* counting, and 1.0 when no goal is given; final_values is the last column of paths.
C17_ProbabilityOfSuccess ==
    \A th \in McThreads :
        mc_pc[th] = "done" =>
            LET result == mc_calls[th]
                reached == {i \in 1..mc_args.n_simulations :
                               RLeq(mc_args.goal_amount.value, result.paths[i][McPeriods + 1])}
            IN  /\ Len(result.final_values) = mc_args.n_simulations
                /\ \A i \in 1..mc_args.n_simulations :
                      result.final_values[i] = result.paths[i][Len(result.paths[i])]
                /\ result.probability_of_success =
                      (IF mc_args.goal_amount.given
                       THEN Rat(Cardinality(reached), mc_args.n_simulations)
                       ELSE One)

\* Of three paths with a goal, one ends exactly on the goal and counts, one ends under it.
C17_Witness ==
    /\ mc_args.goal_amount.given
    /\ mc_args.n_simulations = 3
    /\ \E th \in McThreads :
          /\ mc_pc[th] = "done"
          /\ \E i, j \in 1..3 :
                /\ mc_calls[th].final_values[i] = mc_args.goal_amount.value
                /\ RLess(mc_calls[th].final_values[j], mc_args.goal_amount.value)
          /\ RLess(Zero, mc_calls[th].probability_of_success)
          /\ RLess(mc_calls[th].probability_of_success, One)

----------------------------------------------------------------------------
(* Properties of the tax functions.                                        *)

\* The lower end of the k-th bracket
BracketFloor(k) == IF k = 1 THEN 0 ELSE TAX_BRACKETS_2567[k - 1][1]

\* The part of an income that lies in the k-th bracket
IncomeInBracket(income, k) ==
    LET upto == IF income < TAX_BRACKETS_2567[k][1] THEN income ELSE TAX_BRACKETS_2567[k][1]
    IN  IF upto > BracketFloor(k) THEN upto - BracketFloor(k) ELSE 0

RECURSIVE ReferenceTaxUpTo(_, _)
ReferenceTaxUpTo(income, k) ==
    IF k = 0 THEN 0
    ELSE ReferenceTaxUpTo(income, k - 1) + IncomeInBracket(income, k) * TAX_BRACKETS_2567[k][2]

\* The reference progressive tax: every bracket's rate on the income that lies in it
ReferenceTax(income) == ReferenceTaxUpTo(income, Len(TAX_BRACKETS_2567))

\* C18: calculate_tax gives a positive net income the progressive tax: over the brackets
\* in ascending order, min(remaining income, bracket width) times the bracket's rate,
\* until no income remains; this is the reference piecewise-linear function of the
\* income, and 0 for an income that is not positive.
C18_TaxIsProgressive ==
    "calculate_tax" \in tax_called =>
        /\ tax_out[1] = ReferenceTax(tax_args.net_income)
        /\ tax_args.net_income <= 0 => tax_out = <<0, "0%">>

\* The tax of 300,001 baht: 5% of 150,000 and 10% of 1 (in hundredths of a baht).
C18_Witness ==
    /\ "calculate_tax" \in tax_called
    /\ tax_args.net_income = 300001
    /\ tax_out[1] = 750010

\* C19 as stated: calculate_full_tax with gross_income = 0 returns tax 0, bracket "0%",
\* net income 0 and effective rate 0, for every deductions record.
C19_ZeroIncomeZeroTax ==
    ("calculate_full_tax" \in tax_called /\ tax_args.gross_income = 0) =>
        /\ full_out.tax_before_deduction = 0 /\ full_out.tax_after_deduction = 0
        /\ full_out.tax_bracket = "0%"
        /\ full_out.net_income = 0
        /\ full_out.effective_rate = Zero

\* The deductions of a record as the code adds them up for no income: the shares of
\* income that cap provident fund, SSF and RMF are 0
DocDeductionsOfNoIncome(d) ==
    d.personal + Min(d.spouse, SPOUSE_DEDUCTION) + d.children * CHILD_DEDUCTION
    + Min(d.parents, 4) * PARENT_DEDUCTION + Min(d.life_insurance, INSURANCE_LIFE_MAX)
    + Min(d.health_insurance, INSURANCE_HEALTH_MAX)
    + Min(d.social_security, SOCIAL_SECURITY_MAX)
    + Min(d.provident_fund, 0) + Min(d.ssf_current, 0) + Min(d.rmf_current, 0)
    + d.other_deductions

\* C19: calculate_full_tax with gross_income = 0 never divides by zero and returns
\* effective rate 0; it returns tax 0, bracket "0%" and net income 0 when the deductions
\* add up to 0 or more; deductions that add up to less than 0 become the net income,
\* which is taxed.
C19_ZeroIncomeZeroTaxUnlessNegativeDeductions ==
    ("calculate_full_tax" \in tax_called /\ tax_args.gross_income = 0) =>
        /\ full_out.effective_rate = Zero
        /\ full_out.expense_deduction = 0
        /\ full_out.total_deductions = DocDeductionsOfNoIncome(tax_args.deductions)
        /\ full_out.total_deductions >= 0 =>
              /\ full_out.tax_before_deduction = 0 /\ full_out.tax_after_deduction = 0
              /\ full_out.tax_bracket = "0%"
              /\ full_out.net_income = 0
        /\ full_out.total_deductions < 0 =>
              /\ full_out.net_income = -full_out.total_deductions
              /\ full_out.tax_after_deduction = ReferenceTax(full_out.net_income)

\* No income and the default deductions: no tax, bracket "0%".
C19_Witness ==
    /\ "calculate_full_tax" \in tax_called
    /\ tax_args.gross_income = 0
    /\ tax_args.deductions = DefaultDeductions
    /\ full_out.tax_after_deduction = 0 /\ full_out.tax_bracket = "0%"
    /\ full_out.total_deductions = PERSONAL_DEDUCTION

\* C20: for an income equal to the upper end of a bracket get_marginal_rate returns that
\* bracket's rate, not the next one's, and the label that calculate_tax returns for that
\* income is that same rate.
C20_BoundaryPicksLowerBracket ==
    \A k \in 1..(Len(TAX_BRACKETS_2567) - 1) :
        tax_args.net_income = TAX_BRACKETS_2567[k][1] =>
            /\ "get_marginal_rate" \in tax_called => marginal_out = TAX_BRACKETS_2567[k][2]
            /\ "calculate_tax" \in tax_called =>
                  tax_out[2] = ToString(TAX_BRACKETS_2567[k][2]) \o "%"

\* At 300,000 baht the marginal rate is 5% and the label is "5%".
C20_Witness ==
    /\ tax_args.net_income = 300000
    /\ {"get_marginal_rate", "calculate_tax"} \subseteq tax_called
    /\ marginal_out = 5
    /\ tax_out[2] = "5%"

----------------------------------------------------------------------------
(* Claims on calculate_ssf_rmf_recommendation, calculate_total_deductions *)
(* and calculate_optimal_allocation                                       *)

RecommendationReturned == "calculate_ssf_rmf_recommendation" \in tax_called

AllocationReturned == "calculate_optimal_allocation" \in tax_called

\* 30% of the income, at most 200,000 baht
DocSsfCap(income) == IF (income * 3) \div 10 < 200000 THEN (income * 3) \div 10 ELSE 200000

\* 30% of the income, at most 500,000 baht
DocRmfCap(income) == IF (income * 3) \div 10 < 500000 THEN (income * 3) \div 10 ELSE 500000

\* 15% of the income, at most 500,000 baht
DocProvidentCap(income) ==
    IF (income * 15) \div 100 < 500000 THEN (income * 15) \div 100 ELSE 500000

\* What is left of the 500,000 baht that SSF, RMF and the provident fund share
DocCombinedRoom(d) ==
    IF d.ssf_current + d.rmf_current + d.provident_fund >= 500000 THEN 0
    ELSE 500000 - (d.ssf_current + d.rmf_current + d.provident_fund)

\* C21: calculate_ssf_rmf_recommendation gives SSF the smaller of its own room and the
\* combined room, and RMF the smaller of its own room and the combined room less what
\* SSF was given; so current + recommended is within the cap of each vehicle, the two
\* recommendations together are within the combined room, and the recommendation never
\* takes the retirement funds over the combined cap (or over what they already are).
C21_RecommendationWithinCaps ==
    RecommendationReturned =>
        LET d == tax_args.deductions
            income == tax_args.gross_income
        IN  /\ rec_out.ssf_max_allowed = DocSsfCap(income)
            /\ rec_out.rmf_max_allowed = DocRmfCap(income)
            /\ rec_out.combined_remaining = DocCombinedRoom(d)
            /\ rec_out.ssf_recommended
                 = Min(DocSsfCap(income) - d.ssf_current, DocCombinedRoom(d))
            /\ rec_out.rmf_recommended
                 = Min(DocRmfCap(income) - d.rmf_current,
                       DocCombinedRoom(d) - rec_out.ssf_recommended)
            /\ rec_out.ssf_current + rec_out.ssf_recommended <= rec_out.ssf_max_allowed
            /\ rec_out.rmf_current + rec_out.rmf_recommended <= rec_out.rmf_max_allowed
            /\ rec_out.ssf_recommended + rec_out.rmf_recommended
                 <= rec_out.combined_remaining
            /\ rec_out.combined_current + rec_out.ssf_recommended + rec_out.rmf_recommended
                 <= Max(rec_out.combined_max, rec_out.combined_current)

\* A recommendation where SSF was served first and the combined room, not the RMF cap,
\* limits RMF
C21_Witness ==
    /\ RecommendationReturned
    /\ rec_out.ssf_recommended > 0
    /\ rec_out.rmf_recommended > 0
    /\ rec_out.rmf_recommended < rec_out.rmf_max_allowed - rec_out.rmf_current
    /\ rec_out.ssf_recommended + rec_out.rmf_recommended = rec_out.combined_remaining

DeductionCategories ==
    {"personal", "spouse", "children", "parents", "life_insurance", "health_insurance",
     "social_security", "provident_fund", "ssf_current", "rmf_current", "other_deductions"}

\* The categories that calculate_total_deductions passes through min
CappedCategories ==
    {"spouse", "parents", "life_insurance", "health_insurance", "social_security",
     "provident_fund", "ssf_current", "rmf_current"}

\* The most that can be claimed with effect in a capped category
DocCap(c, income) ==
    CASE c = "spouse" -> SPOUSE_DEDUCTION
      [] c = "parents" -> 4
      [] c = "life_insurance" -> INSURANCE_LIFE_MAX
      [] c = "health_insurance" -> INSURANCE_HEALTH_MAX
      [] c = "social_security" -> SOCIAL_SECURITY_MAX
      [] c = "provident_fund" -> DocProvidentCap(income)
      [] c = "ssf_current" -> DocSsfCap(income)
      [] c = "rmf_current" -> DocRmfCap(income)

\* What one category adds to the total
DocContribution(c, d, income) ==
    CASE c = "children" -> d.children * CHILD_DEDUCTION
      [] c = "parents" ->
           (IF d.parents < DocCap(c, income) THEN d.parents ELSE DocCap(c, income))
           * PARENT_DEDUCTION
      [] c \in {"personal", "other_deductions"} -> d[c]
      [] OTHER -> IF d[c] < DocCap(c, income) THEN d[c] ELSE DocCap(c, income)

\* The most a capped category can add to the total
DocCapContribution(c, income) ==
    IF c = "parents" THEN DocCap(c, income) * PARENT_DEDUCTION ELSE DocCap(c, income)

DocTotalDeductions(d, income) ==
    DocContribution("personal", d, income) + DocContribution("spouse", d, income)
    + DocContribution("children", d, income) + DocContribution("parents", d, income)
    + DocContribution("life_insurance", d, income)
    + DocContribution("health_insurance", d, income)
    + DocContribution("social_security", d, income)
    + DocContribution("provident_fund", d, income)
    + DocContribution("ssf_current", d, income) + DocContribution("rmf_current", d, income)
    + DocContribution("other_deductions", d, income)

\* A claim larger than every cap of tax_optimizer.py (500,000 baht, 4 persons)
AboveEveryCap(c, d) == IF c \in {"children", "parents"} THEN d[c] > 4 ELSE d[c] > 500000

\* The same record with one more baht, or one more person, claimed in category c
RaisedBy(d, c, more) == [d EXCEPT ![c] = d[c] + more]

\* C22 as stated: every category of calculate_total_deductions has a cap, so a claim
\* that is already above every cap adds nothing more to the total when it is raised.
C22_EveryCategoryIsCapped ==
    "calculate_full_tax" \in tax_called =>
        \A c \in DeductionCategories :
            AboveEveryCap(c, tax_args.deductions) =>
                CalculateTotalDeductions(RaisedBy(tax_args.deductions, c, 1),
                                         tax_args.gross_income)
                  = full_out.total_deductions

\* C22, amended: the total is the sum of the contributions of the categories; spouse,
\* parents, life and health insurance, social security, provident fund, SSF and RMF
\* each add at most their cap (for the last three min(percentage of income, absolute
\* cap)), and raising a claim that is at or above its cap leaves the total as it is;
\* personal, children and other_deductions are added as claimed.
C22_CappedCategoriesAreCapped ==
    "calculate_full_tax" \in tax_called =>
        LET d == tax_args.deductions
            income == tax_args.gross_income
        IN  /\ full_out.total_deductions = DocTotalDeductions(d, income)
            /\ \A c \in CappedCategories :
                 /\ DocContribution(c, d, income) <= DocCapContribution(c, income)
                 /\ d[c] >= DocCap(c, income) =>
                      \A more \in {1, 100000} :
                          CalculateTotalDeductions(RaisedBy(d, c, more), income)
                            = full_out.total_deductions
            /\ \A c \in DeductionCategories \ CappedCategories :
                 CalculateTotalDeductions(RaisedBy(d, c, 1), income)
                   > full_out.total_deductions

\* A call whose record claims more than the cap in every capped category, with an
\* income whose provident-fund, SSF and RMF caps are the absolute ones
C22_Witness ==
    /\ "calculate_full_tax" \in tax_called
    /\ \A c \in CappedCategories :
         tax_args.deductions[c] > DocCap(c, tax_args.gross_income)
    /\ DocCap("provident_fund", tax_args.gross_income) = PROVIDENT_FUND_MAX
    /\ DocCap("ssf_current", tax_args.gross_income) = SSF_MAX_AMOUNT
    /\ DocCap("rmf_current", tax_args.gross_income) = RMF_MAX_AMOUNT
    /\ full_out.total_deductions
         = 100000 + 60000 + 150000 + 120000 + 100000 + 25000 + 9000
           + 500000 + 200000 + 500000 + 600000

\* A call whose caps are the percentages of the income, claimed above them
PercentageCapsApplied ==
    /\ "calculate_full_tax" \in tax_called
    /\ tax_args.gross_income = 400000
    /\ tax_args.deductions.ssf_current = 150000
    /\ DocContribution("ssf_current", tax_args.deductions, tax_args.gross_income) = 120000
    /\ DocContribution("provident_fund", tax_args.deductions, tax_args.gross_income) = 60000

\* Income and existing SSF, RMF and provident-fund contributions are not negative
NonNegativeRetirementInputs ==
    /\ tax_args.gross_income >= 0
    /\ tax_args.deductions.ssf_current >= 0
    /\ tax_args.deductions.rmf_current >= 0
    /\ tax_args.deductions.provident_fund >= 0

\* C27: for a non-negative income and non-negative existing SSF, RMF and provident-fund
\* contributions, the recommended additional SSF and RMF amounts and the tax savings
\* of calculate_ssf_rmf_recommendation are never negative.
C27_RecommendationNeverNegative ==
    (RecommendationReturned /\ NonNegativeRetirementInputs) =>
        /\ rec_out.ssf_recommended >= 0
        /\ rec_out.rmf_recommended >= 0
        /\ rec_out.ssf_tax_saving >= 0
        /\ rec_out.rmf_tax_saving >= 0
        /\ rec_out.total_tax_saving >= 0

\* Where the existing contributions are within the caps of both vehicles, nothing
\* recommended is negative
NeverNegativeWithinVehicleCaps ==
    (/\ RecommendationReturned
     /\ NonNegativeRetirementInputs
     /\ rec_out.ssf_current <= rec_out.ssf_max_allowed
     /\ rec_out.rmf_current <= rec_out.rmf_max_allowed) =>
        /\ rec_out.ssf_recommended >= 0
        /\ rec_out.rmf_recommended >= 0
        /\ rec_out.total_tax_saving >= 0

\* Existing SSF over its cap: a negative SSF amount is recommended, and RMF is
\* recommended although no combined room is left
NegativeSsfFundsRmf ==
    /\ RecommendationReturned
    /\ NonNegativeRetirementInputs
    /\ rec_out.combined_remaining = 0
    /\ rec_out.ssf_recommended < 0
    /\ rec_out.rmf_recommended > 0

\* A negative total tax saving is returned
NegativeTaxSaving ==
    /\ RecommendationReturned
    /\ NonNegativeRetirementInputs
    /\ rec_out.total_tax_saving < 0

\* C28: for the same gross income and the same existing SSF, RMF and provident-fund
\* amounts, calculate_ssf_rmf_recommendation and calculate_optimal_allocation give the
\* same SSF amount, the same RMF amount and the same room left afterwards.
C28_RecommendationAgreesWithAllocation ==
    (RecommendationReturned /\ AllocationReturned) =>
        /\ rec_out.ssf_recommended = alloc_out.ssf_optimal
        /\ rec_out.rmf_recommended = alloc_out.rmf_optimal
        /\ rec_out.combined_remaining - rec_out.ssf_recommended - rec_out.rmf_recommended
             = alloc_out.room_remaining

\* Where the existing contributions are within the caps of both vehicles, the two agree
AgreeWithinVehicleCaps ==
    (/\ RecommendationReturned
     /\ AllocationReturned
     /\ rec_out.ssf_current <= rec_out.ssf_max_allowed
     /\ rec_out.rmf_current <= rec_out.rmf_max_allowed) =>
        /\ rec_out.ssf_recommended = alloc_out.ssf_optimal
        /\ rec_out.rmf_recommended = alloc_out.rmf_optimal
        /\ rec_out.combined_remaining - rec_out.ssf_recommended - rec_out.rmf_recommended
             = alloc_out.room_remaining

\* The two functions were called on the same input and differ in the SSF amount
RecommendationDiffersFromAllocation ==
    /\ RecommendationReturned
    /\ AllocationReturned
    /\ rec_out.ssf_recommended < 0
    /\ alloc_out.ssf_optimal = 0

----------------------------------------------------------------------------
(* Claims on the inputs of calculate_equilibrium_returns and on the view   *)
(* uncertainty of black_litterman                                          *)

\* The asset set of market_weights
WeightedAssets == {BlAssets[i] : i \in 1..Len(BlAssets)}

EquilibriumReturned == eq_out.state # "none"

\* C23: whenever the asset set of market_weights is not exactly the index set of the
\* covariance matrix, calculate_equilibrium_returns fails with an asset-mismatch error,
\* be it a weighted asset missing from the covariance or a covariance asset without a
\* market weight.
C23_MismatchRaises ==
    (EquilibriumReturned /\ WeightedAssets # cov_matrix.index) =>
        eq_out.state = "KeyError"

\* A weighted asset that is missing from the covariance does end the call in KeyError
MissingAssetRaisesKeyError ==
    (EquilibriumReturned /\ ~(WeightedAssets \subseteq cov_matrix.index)) =>
        eq_out.state = "KeyError"

MissingAssetCall ==
    /\ EquilibriumReturned
    /\ ~(WeightedAssets \subseteq cov_matrix.index)
    /\ eq_out.state = "KeyError"

\* A covariance with an asset that has no market weight: the call returns the
\* equilibrium returns of the weighted assets
ExtraCovarianceAssetAccepted ==
    /\ EquilibriumReturned
    /\ WeightedAssets \subseteq cov_matrix.index
    /\ WeightedAssets # cov_matrix.index
    /\ eq_out.state = "ok"
    /\ eq_out.index = BlAssets

\* (P (tau Sigma) P')[i][i]: tau times the variance of the view's asset, 0 for a view
\* on no asset
DocRawUncertainty(i) ==
    IF \E k \in 1..Len(BlAssets) : BlAssets[k] = views[i][1]
    THEN LET k == CHOOSE k \in 1..Len(BlAssets) : BlAssets[k] = views[i][1]
         IN  TauSigma[k][k]
    ELSE Zero

HasConfidence(c, i) == c.given /\ views[i][1] \in DOMAIN c.dict

\* What the uncertainty of the i-th view is under view_confidences c, by the three
\* cases of the confidence
IsDocUncertainty(omega, c, i) ==
    LET raw == DocRawUncertainty(i)
    IN  IF ~HasConfidence(c, i) THEN omega = RMul(raw, Rat(2, 1))
        ELSE LET conf == c.dict[views[i][1]]
             IN  IF RLeq(conf, Rat(1, 10)) THEN omega = RMul(raw, Rat(10, 1))
                 ELSE omega = RDiv(raw, conf) /\ (conf = One => omega = raw)

\* C25: black_litterman gives view i the uncertainty (P tau Sigma P')_ii divided by
\* max(confidence_i, 0.1): ten times the raw value for every confidence of 0.1 or less,
\* the raw value for confidence 1.0, and twice the raw value (confidence 0.5) for a
\* view without a confidence entry, with no map passed or with a map lacking the asset.
C25_UncertaintyIsClampedQuotient ==
    \A c \in ConfidenceArgs :
        (bl_calls[c].state # "none" /\ views # <<>> /\ CovarianceCoversAssets) =>
            /\ Len(bl_calls[c].steps.omega_diag) = Len(views)
            /\ \A i \in 1..Len(views) :
                  IsDocUncertainty(bl_calls[c].steps.omega_diag[i], c, i)

\* What the code's formulas give where omega_diag can be written (np.diag a copy)
UncertaintyClampedWhereDiagWriteable ==
    \A c \in ConfidenceArgs :
        (/\ bl_calls[c].state # "none"
         /\ views # <<>>
         /\ CovarianceCoversAssets
         /\ diag_writeable) =>
            /\ Len(bl_calls[c].steps.omega_diag) = Len(views)
            /\ \A i \in 1..Len(views) :
                  IsDocUncertainty(bl_calls[c].steps.omega_diag[i], c, i)

\* With np.diag a read-only view no uncertainty is computed: the call raises
UncertaintyNeverComputed ==
    /\ ~diag_writeable
    /\ views # <<>>
    /\ CovarianceCoversAssets
    /\ bl_calls[ConfidencesUnderFloor].state = "ValueError"
    /\ bl_calls[ConfidencesUnderFloor].steps.omega_diag = <<>>

\* Calls with a confidence of 0, with a negative one and with a map lacking the
\* view's asset, where omega_diag can be written
ClampedCasesWhereDiagWriteable ==
    /\ diag_writeable
    /\ Len(views) = 2
    /\ views[1][1] = "X"
    /\ views[2][1] = "Y"
    /\ bl_calls[ConfidencesUnderFloor].state = "ok"
    /\ bl_calls[ConfidenceOfYOnly].state = "ok"
    /\ bl_calls[ConfidenceOfYOnly].steps.omega_diag[1] # Zero
    /\ bl_calls[ConfidenceOfYOnly].steps.omega_diag[1]
         = RMul(DocRawUncertainty(1), Rat(2, 1))
    /\ bl_calls[ConfidencesUnderFloor].steps.omega_diag[2]
         = RMul(DocRawUncertainty(2), Rat(10, 1))

----------------------------------------------------------------------------
(* Claim on the validation of the arguments of run_monte_carlo *)

\* A negative annual_volatility, or a horizon of no years
OutOfRangeArgs == RLess(mc_args.annual_volatility, Zero) \/ mc_args.years_to_retire <= 0

\* C24: a call of run_monte_carlo with a negative annual_volatility or with
\* years_to_retire <= 0 is rejected with an invalid-parameter error: it returns no
\* SimulationResult.
C24_OutOfRangeRejected ==
    \A th \in McThreads :
        (mc_pc[th] = "done" /\ OutOfRangeArgs) => mc_calls[th] = NoSimulationResult

\* A call with a negative volatility returns paths that the shocks move
NegativeVolatilityAccepted ==
    \E th \in McThreads :
        /\ mc_pc[th] = "done"
        /\ RLess(mc_args.annual_volatility, Zero)
        /\ mc_args.years_to_retire = 1
        /\ mc_args.n_simulations = 3
        /\ Len(mc_calls[th].final_values) = 3
        /\ mc_calls[th].percentile_10 # mc_calls[th].percentile_90

\* A call with a horizon of 0 years returns paths that hold the current wealth only
ZeroHorizonAccepted ==
    \E th \in McThreads :
        /\ mc_pc[th] = "done"
        /\ mc_args.years_to_retire = 0
        /\ mc_args.n_simulations = 3
        /\ mc_calls[th].paths = <<<<mc_args.current_wealth>>, <<mc_args.current_wealth>>,
                                  <<mc_args.current_wealth>>>>
        /\ mc_calls[th].final_values
             = <<mc_args.current_wealth, mc_args.current_wealth, mc_args.current_wealth>>

----------------------------------------------------------------------------
(* Claim on the drift table and the action plan of the same weights *)

\* calculate_drift and generate_action_plan have both returned, the plan made with
\* the default drift_threshold
DriftAndDefaultPlanReturned ==
    /\ PlanReturned
    /\ drift_out.state = "ok"
    /\ plan_args.drift_threshold = DefaultDriftThreshold

\* The assets that the drift table gives a status
AssetsOfStatus(status) ==
    {drift_out.rows[i].Asset :
        i \in {k \in 1..Len(drift_out.rows) : drift_out.rows[k].Status = status}}

\* C26: with the default drift threshold, generate_action_plan has an action for exactly
\* the assets that calculate_drift labels REBALANCE_NEEDED for the same weights; an
\* asset labelled MONITOR or ON_TARGET has none.
C26_ActionsAreRebalanceNeeded ==
    DriftAndDefaultPlanReturned =>
        /\ PlanAssets = AssetsOfStatus("REBALANCE_NEEDED")
        /\ PlanAssets \cap AssetsOfStatus("MONITOR") = {}
        /\ PlanAssets \cap AssetsOfStatus("ON_TARGET") = {}

\* Both functions were called on weights with an asset of each status, one drifting
\* by exactly 5%, and the plan holds the one that needs rebalancing
C26_Witness ==
    /\ DriftAndDefaultPlanReturned
    /\ AssetsOfStatus("REBALANCE_NEEDED") # {}
    /\ AssetsOfStatus("ON_TARGET") # {}
    /\ \E a \in AssetsOfStatus("MONITOR") : Abs(DocDrift(a)) = 5
    /\ Len(plan_out.actions) = Cardinality(AssetsOfStatus("REBALANCE_NEEDED"))

----------------------------------------------------------------------------
(* C29: in mock mode, after any sequence of deposit, withdraw and invest    *)
(* calls, accepted or rejected, every stored portfolio has                  *)
(* 0 <= cash_balance <= total_value; a call is rejected exactly for a       *)
(* non-positive amount, a withdrawal above the cash balance, an allocation  *)
(* whose sum is further than 0.01 from 1, or an invest with no cash; and a  *)
(* rejected call leaves every user's two balances and list of transactions  *)
(* as get_portfolio and get_transactions showed them before it.             *)

ServiceCallReturned == ps_last.op # "none"

\* The balances get_portfolio shows of a user: those stored, or those of a new portfolio
DocBalances(portfolios, user_id) ==
    IF user_id \in DOMAIN portfolios
    THEN <<portfolios[user_id].cash_balance, portfolios[user_id].total_value>>
    ELSE <<0, 0>>

\* The cash the user of the last call had before it
CashBefore == DocBalances(ps_before.portfolios, ps_last.user_id)[1]

\* The reasons for which the last call is to be rejected
DocRejected ==
    CASE ps_last.op = "deposit" -> ps_last.amount <= 0
      [] ps_last.op = "withdraw" -> ps_last.amount <= 0 \/ ps_last.amount > CashBefore
      [] ps_last.op = "invest" ->
             \/ SumValues(ps_last.allocation) < 990
             \/ SumValues(ps_last.allocation) > 1010
             \/ CashBefore <= 0
      [] OTHER -> FALSE

C29_BalancesStayWithinTotal ==
    /\ \A user_id \in DOMAIN MOCK_PORTFOLIOS :
          /\ 0 <= MOCK_PORTFOLIOS[user_id].cash_balance
          /\ MOCK_PORTFOLIOS[user_id].cash_balance <= MOCK_PORTFOLIOS[user_id].total_value
    /\ ServiceCallReturned =>
          /\ ps_last.returned = ~DocRejected
          /\ ~ps_last.returned =>
                \A user_id \in UserIds :
                   /\ DocBalances(MOCK_PORTFOLIOS, user_id)
                         = DocBalances(ps_before.portfolios, user_id)
                   /\ TransactionsOf(MOCK_TRANSACTIONS, user_id)
                         = TransactionsOf(ps_before.transactions, user_id)

\* A withdrawal rejected for being above the cash, of a user whose cash was invested
\* after a deposit: the amount is within the total value
C29_Witness ==
    /\ ps_last.op = "withdraw"
    /\ ~ps_last.returned
    /\ ps_last.amount > CashBefore
    /\ ps_last.amount <= DocBalances(ps_before.portfolios, ps_last.user_id)[2]
    /\ Len(TransactionsOf(MOCK_TRANSACTIONS, ps_last.user_id)) = 2
    /\ MOCK_TRANSACTIONS[ps_last.user_id][2].type = "buy"

----------------------------------------------------------------------------
(* C30: once 5 failed attempts for an email, taken lower-cased and trimmed, *)
(* are younger than 300 seconds, a login for it returns RATE_LIMITED        *)
(* whatever the password and records no attempt; with fewer than 5 such     *)
(* attempts it is not RATE_LIMITED: it succeeds on the user's password and  *)
(* leaves no attempt for that email, and fails otherwise, adding one        *)
(* attempt to the young ones; the attempts of every other email stay.       *)

LoginReturned == auth_last.password # "none"

\* The email as LOGIN_ATTEMPTS is to know it: lower-cased and trimmed
DocEmail(raw_email) == IF raw_email = <<"b">> THEN <<"b">> ELSE <<"a">>

DocEmails == {<<"a">>, <<"b">>}

\* The attempts of the last login's email that were younger than 300 seconds at the call
YoungAttemptsBefore ==
    SelectSeq(AttemptsOf(auth_before, DocEmail(auth_last.email)),
              LAMBDA t : auth_last.time - t < 300)

\* The last login gave the password of the user it named
RightPassword == DocEmail(auth_last.email) = <<"a">> /\ auth_last.password = "client123"

C30_FiveYoungAttemptsLock ==
    LoginReturned =>
        /\ DOMAIN LOGIN_ATTEMPTS \subseteq DocEmails
        /\ \A other \in DocEmails \ {DocEmail(auth_last.email)} :
              AttemptsOf(LOGIN_ATTEMPTS, other) = AttemptsOf(auth_before, other)
        /\ Len(YoungAttemptsBefore) >= 5 =>
              /\ auth_last.error_code = "RATE_LIMITED"
              /\ ~auth_last.success
              /\ AttemptsOf(LOGIN_ATTEMPTS, DocEmail(auth_last.email)) = YoungAttemptsBefore
        /\ Len(YoungAttemptsBefore) < 5 =>
              /\ auth_last.error_code # "RATE_LIMITED"
              /\ auth_last.success = RightPassword
              /\ auth_last.success =>
                    AttemptsOf(LOGIN_ATTEMPTS, DocEmail(auth_last.email)) = <<>>
              /\ ~auth_last.success =>
                    AttemptsOf(LOGIN_ATTEMPTS, DocEmail(auth_last.email))
                        = Append(YoungAttemptsBefore, auth_last.time)

\* The user's own password, typed with the email in capitals and a blank, 299 seconds
\* or more after the clock started, is turned away as RATE_LIMITED
C30_Witness ==
    /\ auth_last.error_code = "RATE_LIMITED"
    /\ auth_last.email = <<"A", " ">>
    /\ auth_last.password = "client123"
    /\ auth_last.time >= 299
    /\ Len(LOGIN_ATTEMPTS[<<"a">>]) = 5

====
